---- MODULE Spec2Model ----
(***************************************************************************)
(* Model of the gitops branch-workflow commands.  The repository state     *)
(* (commit graph, local refs, origin's refs, remote-tracking refs, the     *)
(* checkout, the index and the working tree) is one record, `git`; every   *)
(* execSync call of a command is one step of that command, and the git     *)
(* sub-command it runs is an operator from a repository state to the set   *)
(* of outcomes git can produce there.                                      *)
(***************************************************************************)
EXTENDS Integers, Sequences, FiniteSets, TLC

VARIABLES
    git,            \* the clone, origin and the commit graph
    pc,             \* position of the running command ("idle" between commands)
    currentBranch,  \* getCurrentBranch() as read when the command started
    commitMessage,  \* commitMessageArg after trim()
    exitCode,       \* process exit status, NoExit while running
    err,            \* which error path ended the command
    ops,            \* git sub-commands the running command has issued so far
    pre,            \* the repository as it was when the command started
    prev,           \* start branch and exit status of the previous command
    teammate,       \* pushes made to origin by other clones so far
    fan,            \* git propagate: standard input, candidates, prompts, outcomes
    featRun,        \* git feat: the argument, the prompt and the branch it names
    config,         \* .git/config: the remotes, each branch's upstream, the hooks
    run             \* git done, cleanup, wip, acp: the locals of the running command

vars == <<git, pc, currentBranch, commitMessage, exitCode, err, ops, pre, prev, teammate,
          fan, featRun, config, run>>

----------------------------------------------------------------------------
(* Bounds *)

\* commits that exist before the first command: commit c > 1 has parent c \div 2
InitCommits == 3
\* longest commit message argument
MaxMsgLen == 2
\* pushes another clone may make to origin's develop
MaxTeammate == 1
\* longest argument of git feat when its parsing is studied on its own
MaxArgLen == 4
\* longest argument of git feat in the runs against varied repositories
FlowArgLen == 3
\* longest list of commits since the latest tag
MaxLog == 2

----------------------------------------------------------------------------
(* Values *)

Branches == {"main", "master", "develop", "feat/x"}
NoCommit == 0
NoExit == -1
Chars == {"a", "\\", "\""}
Messages == UNION {[1..n -> Chars] : n \in 0..MaxMsgLen}
NoIndex == [st |-> "none", tree |-> {}]
NoPrev == [from |-> "none", exit |-> NoExit]
\* no git propagate and no git feat is running
NoFan == [source |-> "none"]
NoFeat == [arg |-> <<>>]
\* a clone of origin with no upstream set for any branch and no hook; no
\* git done, cleanup, wip or acp is running
PlainConfig ==
    [remotes |-> <<"origin">>, upstream |-> [b \in Branches |-> "none"],
     elsewhere |-> [b \in Branches |-> NoCommit], hook |-> FALSE]
NoRun == [cmd |-> "none"]

RECURSIVE InitTree(_)
InitTree(c) == IF c = 1 THEN {1} ELSE InitTree(c \div 2) \cup {c}

InitGraph ==
    [c \in 1..InitCommits |->
        [parents |-> IF c = 1 THEN {} ELSE {c \div 2},
         msg |-> <<"i">>,
         tree |-> InitTree(c)]]

RECURSIVE Ancestors(_, _)
Ancestors(cs, c) == {c} \cup UNION {Ancestors(cs, p) : p \in cs[c].parents}

Contains(cs, a, d) == a \in Ancestors(cs, d)

NextId(cs) == Cardinality(DOMAIN cs) + 1

AddCommit(cs, parents, msg, tree) ==
    [c \in (DOMAIN cs) \cup {NextId(cs)} |->
        IF c \in DOMAIN cs THEN cs[c]
        ELSE [parents |-> parents, msg |-> msg, tree |-> tree]]

Tip(g) == g.local[g.head]

Ok(g) == [ok |-> TRUE, g |-> g]
Fail(g) == [ok |-> FALSE, g |-> g]

----------------------------------------------------------------------------
(* Message handling *)

\* String.prototype.trim
RECURSIVE Trim(_)
Trim(s) ==
    IF s = <<>> THEN s
    ELSE IF Head(s) = " " THEN Trim(Tail(s))
    ELSE IF s[Len(s)] = " " THEN Trim(SubSeq(s, 1, Len(s) - 1))
    ELSE s

\* message.replace(/"/g, '\\"')
RECURSIVE escapeForShell(_)
escapeForShell(message) ==
    IF message = <<>> THEN <<>>
    ELSE (IF Head(message) = "\"" THEN <<"\\", "\"">> ELSE <<Head(message)>>)
         \o escapeForShell(Tail(message))

\* The word /bin/sh hands to git for the text s, which starts at position i
\* either inside (inq) or outside double quotes; acc is the word so far.
RECURSIVE ShScan(_, _, _, _)
ShScan(s, i, inq, acc) ==
    IF i > Len(s) THEN [ok |-> ~inq, word |-> acc]
    ELSE IF s[i] = "\\" THEN
        IF i = Len(s) THEN [ok |-> FALSE, word |-> acc]
        ELSE IF inq /\ s[i + 1] \notin {"\\", "\"", "$"}
             THEN ShScan(s, i + 2, inq, acc \o <<"\\", s[i + 1]>>)
             ELSE ShScan(s, i + 2, inq, acc \o <<s[i + 1]>>)
    ELSE IF s[i] = "\"" THEN ShScan(s, i + 1, ~inq, acc)
    ELSE ShScan(s, i + 1, inq, acc \o <<s[i]>>)

\* the -m argument of: git commit -m "${escapeForShell(commitMessage)}"
ShellMessage(message) ==
    ShScan(<<"\"">> \o escapeForShell(message) \o <<"\"">>, 1, FALSE, <<>>)

----------------------------------------------------------------------------
(* git sub-commands: repository -> set of outcomes [ok, g] *)

\* git status --porcelain prints something
statusPorcelain(g) == g.dirty \/ g.index.st # "none"

\* git fetch origin b:b
GitFetchRefspec(g, b) ==
    IF g.remote[b] = NoCommit THEN {Fail(g)}
    ELSE LET g1 == [g EXCEPT !.tracking[b] = g.remote[b]] IN
         IF g.head = b THEN {Fail(g1)}
         ELSE IF g.local[b] = NoCommit \/ Contains(g.commits, g.local[b], g.remote[b])
              THEN {Ok([g1 EXCEPT !.local[b] = g.remote[b]])}
              ELSE {Fail(g1)}

\* an ordinary merge of commit c into the checked-out branch when the two
\* have diverged: a merge commit, or a conflict left in the index
TrueMerge(g, c) ==
    LET t == g.commits[Tip(g)].tree \cup g.commits[c].tree
        n == NextId(g.commits) IN
    { Ok([g EXCEPT !.commits = AddCommit(g.commits, {Tip(g), c}, <<"m">>, t),
                   !.local[g.head] = n]),
      Fail([g EXCEPT !.index = [st |-> "conflict", tree |-> t]]) }

\* git pull origin b, run with b checked out.  On divergent histories git
\* either refuses (no pull.rebase / pull.ff setting, git >= 2.33) or merges.
GitPull(g, b) ==
    IF g.remote[b] = NoCommit \/ Tip(g) = NoCommit THEN {Fail(g)}
    ELSE LET g1 == [g EXCEPT !.tracking[b] = g.remote[b]]
             r == g.remote[b] IN
         IF Contains(g.commits, r, Tip(g)) THEN {Ok(g1)}
         ELSE IF Contains(g.commits, Tip(g), r)
              THEN {Ok([g1 EXCEPT !.local[g.head] = r])}
              ELSE {Fail(g1)} \cup TrueMerge(g1, r)

\* git checkout b
GitCheckout(g, b) ==
    IF g.index.st = "conflict" THEN {Fail(g)}
    ELSE IF g.local[b] # NoCommit THEN {Ok([g EXCEPT !.head = b])}
    ELSE IF g.tracking[b] # NoCommit
         THEN {Ok([g EXCEPT !.head = b, !.local[b] = g.tracking[b]])}
         ELSE {Fail(g)}

\* git merge b, without --ff-only
GitMergePlain(g, b) ==
    IF g.local[b] = NoCommit THEN {Fail(g)}
    ELSE IF Contains(g.commits, g.local[b], Tip(g)) THEN {Ok(g)}
    ELSE IF Contains(g.commits, Tip(g), g.local[b])
         THEN {Ok([g EXCEPT !.local[g.head] = g.local[b]])}
         ELSE TrueMerge(g, g.local[b])

\* git merge b --ff-only
GitMergeFFOnly(g, b) ==
    IF g.local[b] = NoCommit THEN {Fail(g)}
    ELSE IF Contains(g.commits, g.local[b], Tip(g)) THEN {Ok(g)}
    ELSE IF Contains(g.commits, Tip(g), g.local[b])
         THEN {Ok([g EXCEPT !.local[g.head] = g.local[b]])}
         ELSE {Fail(g)}

\* git merge b --no-commit --squash
GitMergeSquash(g, b) ==
    IF g.local[b] = NoCommit THEN {Fail(g)}
    ELSE LET t == g.commits[Tip(g)].tree \cup g.commits[g.local[b]].tree IN
         IF Contains(g.commits, g.local[b], Tip(g)) THEN {Ok(g)}
         ELSE IF Contains(g.commits, Tip(g), g.local[b])
              THEN {Ok([g EXCEPT !.index = [st |-> "staged", tree |-> t]])}
              ELSE { Ok([g EXCEPT !.index = [st |-> "staged", tree |-> t]]),
                     Fail([g EXCEPT !.index = [st |-> "conflict", tree |-> t]]) }

\* git commit -m <word>, where sh is what the shell made of the argument
GitCommit(g, sh) ==
    IF ~sh.ok \/ sh.word = <<>> THEN {Fail(g)}
    ELSE IF g.index.st # "staged" \/ g.index.tree = g.commits[Tip(g)].tree
         THEN {Fail(g)}
         ELSE {Ok([g EXCEPT !.commits = AddCommit(g.commits, {Tip(g)}, sh.word, g.index.tree),
                            !.local[g.head] = NextId(g.commits),
                            !.index = NoIndex])}

\* git push origin b, with "Everything up-to-date" taken for a failure
GitPushStrict(g, b) ==
    IF g.local[b] = NoCommit \/ g.remote[b] = g.local[b] THEN {Fail(g)}
    ELSE IF g.remote[b] = NoCommit \/ Contains(g.commits, g.remote[b], g.local[b])
         THEN {Ok([g EXCEPT !.remote[b] = g.local[b], !.tracking[b] = g.local[b]])}
         ELSE {Fail(g)}

\* git push origin b
GitPush(g, b) ==
    IF g.local[b] = NoCommit THEN {Fail(g)}
    ELSE IF g.remote[b] = NoCommit \/ Contains(g.commits, g.remote[b], g.local[b])
         THEN {Ok([g EXCEPT !.remote[b] = g.local[b], !.tracking[b] = g.local[b]])}
         ELSE {Fail(g)}

\* a delete that also takes the checked-out branch
GitBranchDeleteCurrent(g, b) ==
    IF g.local[b] = NoCommit THEN {Fail(g)}
    ELSE {Ok([g EXCEPT !.local[b] = NoCommit])}

\* git branch -D b
GitBranchDelete(g, b) ==
    IF g.local[b] = NoCommit \/ g.head = b THEN {Fail(g)}
    ELSE {Ok([g EXCEPT !.local[b] = NoCommit])}

\* git branch -D also drops the branch's section of .git/config
DropBranchConfig(c, b) == [c EXCEPT !.upstream[b] = "none", !.elsewhere[b] = NoCommit]

\* git push --delete origin b
GitPushDelete(g, b) ==
    IF g.remote[b] = NoCommit THEN {Fail(g)}
    ELSE {Ok([g EXCEPT !.remote[b] = NoCommit, !.tracking[b] = NoCommit])}

----------------------------------------------------------------------------
(* git-promote helpers *)

\* main forgotten in the heuristic
isFeatureBranchNotDevelop(branch) == branch # "develop"

isFeatureBranch(branch) == branch # "main" /\ branch # "develop"

\* the exit status of merge-base ignored
isAncestorUnchecked(g, ancestor, descendant) == TRUE

\* git merge-base --is-ancestor ancestor descendant
isAncestor(g, ancestor, descendant) ==
    /\ g.local[ancestor] # NoCommit
    /\ g.local[descendant] # NoCommit
    /\ Contains(g.commits, g.local[ancestor], g.local[descendant])

\* git ls-remote --heads origin branch
branchExistsOnRemote(g, branch) == g.remote[branch] # NoCommit

----------------------------------------------------------------------------
(* Control *)

Goto(p) == pc' = p /\ UNCHANGED <<exitCode, err>>

Finish(code, e) == pc' = "exited" /\ exitCode' = code /\ err' = e

Frame == UNCHANGED <<currentBranch, commitMessage, pre, prev, teammate, fan, featRun, config, run>>

\* one execSync call: op is logged, the command goes on to okpc when git
\* succeeds and ends with exit status 1 on the error path e when it fails
Exec(outs, op, okpc, e) ==
    \E o \in outs :
        /\ git' = o.g
        /\ ops' = ops \cup {op}
        /\ IF o.ok THEN Goto(okpc) ELSE Finish(1, e)
        /\ Frame

Start(m) ==
    /\ currentBranch' = git.head
    /\ commitMessage' = Trim(m)
    /\ pre' = git
    /\ ops' = {}
    /\ UNCHANGED <<git, prev, teammate, fan, featRun, config, run>>

----------------------------------------------------------------------------
(* git promote: dispatch on the current branch *)

PromoteFromDevelop ==
    /\ pc = "idle"
    /\ git.head = "develop"
    /\ \E m \in Messages : Start(m)
    /\ Goto("pd_updateDevelop")

PromoteFromFeature ==
    /\ pc = "idle"
    /\ git.head # "develop"
    /\ isFeatureBranch(git.head)
    /\ \E m \in Messages : Start(m)
    /\ Goto("pf_message")

PromoteFromMain ==
    /\ pc = "idle"
    /\ git.head # "develop"
    /\ ~isFeatureBranch(git.head)
    /\ \E m \in Messages : Start(m)
    /\ Finish(1, "FromMain")

----------------------------------------------------------------------------
(* promoteFeatureToDevelop(featureBranch = currentBranch, commitMessage) *)

\* the message check placed after the clean-tree check
PF_RequireMessageAfterClean ==
    /\ pc = "pf_message"
    /\ IF statusPorcelain(git) THEN Finish(1, "DirtyTree")
       ELSE IF commitMessage = <<>> THEN Finish(1, "MissingMessage")
       ELSE Goto("pf_clean")
    /\ UNCHANGED <<git, ops>>
    /\ Frame

PF_RequireMessage ==
    /\ pc = "pf_message"
    /\ IF commitMessage = <<>> THEN Finish(1, "MissingMessage") ELSE Goto("pf_clean")
    /\ UNCHANGED <<git, ops>>
    /\ Frame

\* ensureCleanWorkingTree that reports but does not exit
PF_EnsureCleanWarnOnly ==
    /\ pc = "pf_clean"
    /\ Goto("pf_fetch")
    /\ UNCHANGED <<git, ops>>
    /\ Frame

\* ensureCleanWorkingTree
PF_EnsureClean ==
    /\ pc = "pf_clean"
    /\ IF statusPorcelain(git) THEN Finish(1, "DirtyTree") ELSE Goto("pf_fetch")
    /\ UNCHANGED <<git, ops>>
    /\ Frame

PF_FetchDevelop ==
    /\ pc = "pf_fetch"
    /\ Exec(GitFetchRefspec(git, "develop"), "fetch", "pf_ancestor", "FetchFailed")

PF_CheckAncestor ==
    /\ pc = "pf_ancestor"
    /\ IF isAncestor(git, "develop", currentBranch)
       THEN Goto("pf_checkout")
       ELSE Finish(1, "AncestryViolation")
    /\ UNCHANGED <<git, ops>>
    /\ Frame

PF_CheckoutDevelop ==
    /\ pc = "pf_checkout"
    /\ Exec(GitCheckout(git, "develop"), "checkout", "pf_pull", "Uncaught")

PF_PullDevelop ==
    /\ pc = "pf_pull"
    /\ Exec(GitPull(git, "develop"), "pull", "pf_squash", "Uncaught")

\* the catch block rolling the merge back before it exits
PF_SquashMergeAbort ==
    /\ pc = "pf_squash"
    /\ \E o \in GitMergeSquash(git, currentBranch) :
        /\ IF o.ok
           THEN git' = o.g /\ ops' = ops \cup {"merge --squash"} /\ Goto("pf_commit")
           ELSE /\ git' = [o.g EXCEPT !.index = NoIndex]
                /\ ops' = ops \cup {"merge --squash", "reset"}
                /\ Finish(1, "SquashFailed")
    /\ Frame

PF_SquashMerge ==
    /\ pc = "pf_squash"
    /\ Exec(GitMergeSquash(git, currentBranch), "merge --squash", "pf_commit", "SquashFailed")

PF_Commit ==
    /\ pc = "pf_commit"
    /\ Exec(GitCommit(git, ShellMessage(commitMessage)), "commit", "pf_push", "Uncaught")

\* a push whose failure is only a warning
PF_PushDevelopWarnOnly ==
    /\ pc = "pf_push"
    /\ \E o \in GitPush(git, "develop") : git' = o.g
    /\ ops' = ops \cup {"push"}
    /\ Goto("pf_deleteLocal")
    /\ Frame

PF_PushDevelop ==
    /\ pc = "pf_push"
    /\ Exec(GitPush(git, "develop"), "push", "pf_deleteLocal", "Uncaught")

\* a failed delete is only a warning
PF_DeleteLocal ==
    /\ pc = "pf_deleteLocal"
    /\ \E o \in GitBranchDelete(git, currentBranch) :
        /\ git' = o.g
        /\ config' = IF o.ok THEN DropBranchConfig(config, currentBranch) ELSE config
        /\ ops' = ops \cup {"branch -D"}
    /\ Goto("pf_deleteRemote")
    /\ UNCHANGED <<currentBranch, commitMessage, pre, prev, teammate, fan, featRun, run>>

PF_DeleteRemote ==
    /\ pc = "pf_deleteRemote"
    /\ IF branchExistsOnRemote(git, currentBranch)
       THEN \E o \in GitPushDelete(git, currentBranch) :
                /\ git' = o.g
                /\ ops' = ops \cup {"push --delete"}
       ELSE UNCHANGED <<git, ops>>
    /\ Finish(0, "none")
    /\ Frame

PromoteFeature ==
    \/ PF_RequireMessage
    \/ PF_EnsureClean
    \/ PF_FetchDevelop
    \/ PF_CheckAncestor
    \/ PF_CheckoutDevelop
    \/ PF_PullDevelop
    \/ PF_SquashMerge
    \/ PF_Commit
    \/ PF_PushDevelop
    \/ PF_DeleteLocal
    \/ PF_DeleteRemote

----------------------------------------------------------------------------
(* promoteDevelopToMain() *)

\* updateDevelop
PD_UpdateDevelop ==
    /\ pc = "pd_updateDevelop"
    /\ Exec(GitPull(git, "develop"), "pull", "pd_fetchMain", "Uncaught")

PD_FetchMain ==
    /\ pc = "pd_fetchMain"
    /\ Exec(GitFetchRefspec(git, "main"), "fetch", "pd_mergeMain", "Uncaught")

PD_MergeMain ==
    /\ pc = "pd_mergeMain"
    /\ Exec(GitMergeFFOnly(git, "main"), "merge --ff-only", "pd_checkout", "DevelopDiverged")

PD_CheckoutMain ==
    /\ pc = "pd_checkout"
    /\ Exec(GitCheckout(git, "main"), "checkout", "pd_pullMain", "Uncaught")

PD_PullMain ==
    /\ pc = "pd_pullMain"
    /\ Exec(GitPull(git, "main"), "pull", "pd_mergeDevelop", "Uncaught")

PD_MergeDevelop ==
    /\ pc = "pd_mergeDevelop"
    /\ Exec(GitMergeFFOnly(git, "develop"), "merge --ff-only", "pd_push", "MainDiverged")

\* the push sits in the same try block as the merge; the function returns
\* after it and the process ends with status 0
PD_PushMain ==
    /\ pc = "pd_push"
    /\ \E o \in GitPush(git, "main") :
        /\ git' = o.g
        /\ ops' = ops \cup {"push"}
        /\ IF o.ok THEN Finish(0, "none") ELSE Finish(1, "MainDiverged")
    /\ Frame

PromoteDevelop ==
    \/ PD_UpdateDevelop
    \/ PD_FetchMain
    \/ PD_MergeMain
    \/ PD_CheckoutMain
    \/ PD_PullMain
    \/ PD_MergeDevelop
    \/ PD_PushMain

----------------------------------------------------------------------------
(* Between and around commands *)

\* the process has ended; the operator sees its status
Return ==
    /\ pc = "exited"
    /\ pc' = "idle"
    /\ prev' = [from |-> currentBranch, exit |-> exitCode]
    /\ currentBranch' = git.head
    /\ commitMessage' = <<>>
    /\ exitCode' = NoExit
    /\ err' = "none"
    /\ ops' = {}
    /\ pre' = git
    /\ UNCHANGED <<git, teammate, fan, featRun, config, run>>

\* the operator switches to another local branch between two commands
UserCheckout ==
    /\ pc = "idle"
    /\ \E b \in Branches \ {git.head} :
        /\ git.local[b] # NoCommit
        /\ git.index.st = "none"
        /\ git' = [git EXCEPT !.head = b]
    /\ pre' = git'
    /\ currentBranch' = git'.head
    /\ UNCHANGED <<pc, commitMessage, exitCode, err, ops, prev, teammate, fan, featRun, config, run>>

\* another clone pushes a new commit to origin's develop while a command runs
TeammatePush ==
    /\ pc \notin {"idle", "exited"}
    /\ teammate < MaxTeammate
    /\ git.remote["develop"] # NoCommit
    /\ LET p == git.remote["develop"]
           n == NextId(git.commits) IN
       git' = [git EXCEPT
                 !.commits = AddCommit(git.commits, {p}, <<"t">>, git.commits[p].tree \cup {n}),
                 !.remote["develop"] = n]
    /\ teammate' = teammate + 1
    /\ UNCHANGED <<pc, currentBranch, commitMessage, exitCode, err, ops, pre, prev, fan, featRun, config, run>>

----------------------------------------------------------------------------
(* Repositories a command can be started in *)

Refs(main, master, develop, feat) ==
    [b \in Branches |->
        CASE b = "main" -> main
          [] b = "master" -> master
          [] b = "develop" -> develop
          [] OTHER -> feat]

Idle(g) ==
    /\ git = g
    /\ pre = g
    /\ pc = "idle"
    /\ currentBranch = g.head
    /\ commitMessage = <<>>
    /\ exitCode = NoExit
    /\ err = "none"
    /\ ops = {}
    /\ prev = NoPrev
    /\ teammate = 0
    /\ fan = NoFan
    /\ featRun = NoFeat
    /\ config = PlainConfig
    /\ run = NoRun

\* A feature branch (and perhaps master) beside develop; main, when there
\* is one, sits at the root commit on both sides.
InitFeature ==
    \E dl \in 0..InitCommits, dr \in 0..InitCommits, fl \in 1..InitCommits,
       pushed \in BOOLEAN, mn \in {NoCommit, 1}, ms \in {NoCommit, 2},
       d \in BOOLEAN, h \in Branches \ {"develop"} :
        LET loc == Refs(mn, ms, dl, fl)
            rem == Refs(mn, NoCommit, dr, IF pushed THEN fl ELSE NoCommit) IN
        /\ loc[h] # NoCommit
        /\ Idle([commits |-> InitGraph, local |-> loc, remote |-> rem,
                 tracking |-> rem, head |-> h, index |-> NoIndex, dirty |-> d])

NextFeature == PromoteFromFeature \/ PromoteFromMain \/ PromoteFeature

SpecFeature == InitFeature /\ [][NextFeature]_vars

\* Only develop and main, each anywhere relative to its counterpart on origin.
InitDevelop ==
    \E dl \in 1..InitCommits, dr \in 0..InitCommits,
       ml \in 0..InitCommits, mr \in 0..InitCommits,
       d \in BOOLEAN, h \in {"develop", "main"} :
        LET loc == Refs(ml, NoCommit, dl, NoCommit)
            rem == Refs(mr, NoCommit, dr, NoCommit) IN
        /\ loc[h] # NoCommit
        /\ Idle([commits |-> InitGraph, local |-> loc, remote |-> rem,
                 tracking |-> rem, head |-> h, index |-> NoIndex, dirty |-> d])

NextDevelop ==
    PromoteFromDevelop \/ PromoteFromMain \/ PromoteDevelop \/ Return \/ UserCheckout

SpecDevelop == InitDevelop /\ [][NextDevelop]_vars

\* A clean feature checkout, with origin's develop moving under the command.
InitRace ==
    \E dl \in 0..InitCommits, dr \in 1..InitCommits, fl \in 1..InitCommits,
       pushed \in BOOLEAN :
        LET loc == Refs(NoCommit, NoCommit, dl, fl)
            rem == Refs(NoCommit, NoCommit, dr, IF pushed THEN fl ELSE NoCommit) IN
        Idle([commits |-> InitGraph, local |-> loc, remote |-> rem,
              tracking |-> rem, head |-> "feat/x", index |-> NoIndex, dirty |-> FALSE])

NextRace == PromoteFromFeature \/ PromoteFeature \/ TeammatePush

SpecRace == InitRace /\ [][NextRace]_vars


\* The repositories of the promotion tests: develop is on origin, the local
\* develop is absent or level with it, and the clean feature checkout has
\* commits on top of develop.
InitSquash ==
    \E dr \in 1..InitCommits, fl \in 1..InitCommits, hasLocal \in BOOLEAN,
       pushed \in BOOLEAN, mn \in {NoCommit, 1} :
        LET loc == Refs(mn, NoCommit, IF hasLocal THEN dr ELSE NoCommit, fl)
            rem == Refs(mn, NoCommit, dr, IF pushed THEN fl ELSE NoCommit) IN
        /\ fl # dr
        /\ Contains(InitGraph, dr, fl)
        /\ Idle([commits |-> InitGraph, local |-> loc, remote |-> rem,
                 tracking |-> rem, head |-> "feat/x", index |-> NoIndex, dirty |-> FALSE])

NextSquash == PromoteFromFeature \/ PromoteFeature

SpecSquash == InitSquash /\ [][NextSquash]_vars

----------------------------------------------------------------------------
(* Vocabulary of the properties *)

Trunk == {"main", "master"}
Integration == "develop"
Exited == pc = "exited"
Running == pc # "idle"
\* the command was started on a Feature-classified branch
FromFeature == currentBranch \notin Trunk \cup {Integration}
\* nothing uncommitted in g: no unstaged, untracked or staged change
CleanTree(g) == ~g.dirty /\ g.index.st = "none"
\* the working tree was clean and a message was given
CleanWithMessage == CleanTree(pre) /\ commitMessage # <<>>
\* origin's develop can be fetched into the local develop ref
Refreshable(g) ==
    /\ g.remote["develop"] # NoCommit
    /\ \/ g.local["develop"] = NoCommit
       \/ Contains(g.commits, g.local["develop"], g.remote["develop"])
\* branch b lacks a commit that ref value c has
Lacks(g, b, c) == c # NoCommit /\ ~Contains(g.commits, c, g.local[b])

----------------------------------------------------------------------------
(* Squash promotion, feature -> develop *)

\* C1: run on a feature branch with a clean tree, a message and origin's
\* develop an ancestor of the feature branch, promotion exits 0 with develop
\* checked out, develop's tip the one new commit, carrying exactly the
\* supplied message, origin's develop equal to the local one, and the feature
\* branch gone locally and on origin.
C1_SquashPromotionSucceeds ==
    (/\ Exited
     /\ FromFeature
     /\ CleanWithMessage
     /\ pre.remote["develop"] # NoCommit
     /\ Contains(pre.commits, pre.remote["develop"], pre.local[currentBranch]))
    => /\ exitCode = 0
       /\ git.head = "develop"
       /\ DOMAIN git.commits = DOMAIN pre.commits \cup {Tip(git)}
       /\ Tip(git) \notin DOMAIN pre.commits
       /\ git.commits[Tip(git)].msg = commitMessage
       /\ git.remote["develop"] = git.local["develop"]
       /\ git.local[currentBranch] = NoCommit
       /\ git.remote[currentBranch] = NoCommit

\* C2 as stated: a feature branch that lacks a commit of develop makes the
\* promotion end in an AncestryViolation with no ref and no checkout changed
\* at any step of the run.
C2_NoRefMutatedAsStated ==
    (/\ Running
     /\ FromFeature
     /\ CleanWithMessage
     /\ \/ Lacks(pre, currentBranch, pre.local["develop"])
        \/ Lacks(pre, currentBranch, pre.remote["develop"]))
    => /\ git.local = pre.local
       /\ git.remote = pre.remote
       /\ git.head = pre.head
       /\ Exited => exitCode = 1 /\ err = "AncestryViolation"

\* C2: a feature branch that lacks a commit of develop (the local one or
\* origin's) makes the promotion exit non-zero: with an AncestryViolation
\* when origin's develop could be fetched into the local develop, which is
\* then the only ref that moved (to origin's develop), and with a fetch
\* failure and no local ref moved otherwise.  At every step of the run the
\* checkout, the feature branch, origin's refs and the commit graph are as
\* before.
C2_AncestryViolation ==
    (/\ Running
     /\ FromFeature
     /\ CleanWithMessage
     /\ \/ Lacks(pre, currentBranch, pre.local["develop"])
        \/ Lacks(pre, currentBranch, pre.remote["develop"]))
    => /\ git.remote = pre.remote
       /\ git.head = pre.head
       /\ git.commits = pre.commits
       /\ \A b \in Branches \ {"develop"} : git.local[b] = pre.local[b]
       /\ git.local["develop"] \in {pre.local["develop"], pre.remote["develop"]}
       /\ ops \subseteq {"fetch"}
       /\ Exited =>
            /\ exitCode = 1
            /\ IF Refreshable(pre)
               THEN err = "AncestryViolation" /\ git.local["develop"] = pre.remote["develop"]
               ELSE err = "FetchFailed" /\ git.local = pre.local

\* C2 witness: an AncestryViolation after the refresh moved the local develop
C2_Witness ==
    /\ Exited
    /\ FromFeature
    /\ err = "AncestryViolation"
    /\ Lacks(pre, currentBranch, pre.remote["develop"])
    /\ git.local["develop"] # pre.local["develop"]

\* C3 as stated: the clean-tree check comes before the message check, so a
\* dirty tree with no message is reported as the dirty tree.
C3_DirtyBeforeMessageAsStated ==
    (Exited /\ FromFeature /\ ~CleanTree(pre) /\ commitMessage = <<>>)
    => err = "DirtyTree"

\* C3: squash promotion checks, in this order, (1) message given, (2) tree
\* clean, (3) local develop refreshed from origin, (4) develop an ancestor
\* of the feature branch, and exits non-zero at the first that fails; a
\* dirty tree with no message is reported as the missing message.
C3_PreconditionOrder ==
    (Exited /\ FromFeature) =>
       /\ commitMessage = <<>> => exitCode = 1 /\ err = "MissingMessage"
       /\ (commitMessage # <<>> /\ ~CleanTree(pre))
            => exitCode = 1 /\ err = "DirtyTree"
       /\ (CleanWithMessage /\ ~Refreshable(pre))
            => exitCode = 1 /\ err = "FetchFailed"
       /\ (CleanWithMessage /\ Refreshable(pre)
             /\ Lacks(pre, currentBranch, pre.remote["develop"]))
            => exitCode = 1 /\ err = "AncestryViolation"

\* C3 witness: a dirty tree and no message together
C3_Witness ==
    /\ Exited
    /\ FromFeature
    /\ ~CleanTree(pre)
    /\ commitMessage = <<>>
    /\ err = "MissingMessage"

\* C4 as stated: started on a Trunk branch (main or master), promote exits
\* non-zero and issues no git command that changes anything.
C4_TrunkRejectedAsStated ==
    (Running /\ currentBranch \in Trunk)
    => /\ ops = {}
       /\ git = pre
       /\ Exited => exitCode = 1

\* C4: started on the branch named main, for every message argument and
\* every repository, promote exits non-zero and issues no git command that
\* changes anything.
C4_MainRejected ==
    (Running /\ currentBranch = "main")
    => /\ ops = {}
       /\ git = pre
       /\ Exited /\ exitCode = 1 /\ err = "FromMain"

\* C4 witness: a rejection on main although a message was given
C4_Witness ==
    /\ Exited
    /\ currentBranch = "main"
    /\ commitMessage # <<>>
    /\ err = "FromMain"

----------------------------------------------------------------------------
(* Fast-forward promotion, develop -> main *)

\* C5: whenever promote started on develop exits 0, local main equals
\* develop, origin's main equals local main, main is checked out, and the run
\* created no commit (main moved by fast-forward only, over history that
\* existed before).
C5_FastForwardOnly ==
    (Exited /\ currentBranch = "develop" /\ exitCode = 0)
    => /\ git.local["main"] = git.local["develop"]
       /\ git.remote["main"] = git.local["main"]
       /\ git.head = "main"
       /\ DOMAIN git.commits = DOMAIN pre.commits

\* main has a commit that develop lacks
MainHasExtra(g) == Lacks(g, "develop", g.local["main"])
\* develop has a commit that main lacks
DevelopHasExtra(g) == Lacks(g, "main", g.local["develop"])

\* C6 as stated: at the first fast-forward-only merge, main having a commit
\* that develop lacks makes the merge fail: exit non-zero, main not checked
\* out, local develop not moved, nothing pushed.
C6_FirstStageAsStated ==
    [][(pc = "pd_mergeMain" /\ MainHasExtra(git))
         => /\ pc' = "exited"
            /\ exitCode' = 1
            /\ git'.head = "develop"
            /\ git'.local = git.local
            /\ git'.remote = git.remote]_vars

\* C6: at the first fast-forward-only merge, if main and develop have
\* diverged (each has a commit the other lacks) the merge fails and the
\* command exits non-zero with develop still checked out, no local or
\* remote ref moved by the step and nothing pushed; if main is strictly
\* ahead of develop the merge fast-forwards local develop to main and the
\* promotion goes on.
C6_FirstStage ==
    [][/\ (pc = "pd_mergeMain" /\ MainHasExtra(git) /\ DevelopHasExtra(git))
            => /\ pc' = "exited"
               /\ exitCode' = 1
               /\ err' = "DevelopDiverged"
               /\ git' = git
               /\ git.head = "develop"
               /\ "push" \notin ops'
       /\ (pc = "pd_mergeMain" /\ MainHasExtra(git) /\ ~DevelopHasExtra(git))
            => /\ pc' = "pd_checkout"
               /\ git'.local["develop"] = git.local["main"]
               /\ git'.local["develop"] # git.local["develop"]]_vars

\* C6 witness: a promotion that ended at the diverged first stage
C6_Witness ==
    /\ Exited
    /\ err = "DevelopDiverged"
    /\ MainHasExtra(git)
    /\ DevelopHasExtra(git)

\* C7 as stated: a second develop -> main promotion started from the state
\* and the checkout the first one left exits 0 and changes no ref.
C7_SecondRunAsStated ==
    (/\ Exited
     /\ prev = [from |-> "develop", exit |-> 0]
     /\ currentBranch = "main")
    => /\ exitCode = 0
       /\ git.local = pre.local
       /\ git.remote = pre.remote

\* C7: after a develop -> main promotion that exited 0, with no commit made
\* in between, a second promotion started on develop again exits 0 and
\* changes no local or remote ref and creates no commit; started on the
\* checkout the first one left (main) it exits non-zero, rejected, and also
\* changes nothing.
C7_SecondRun ==
    (Exited /\ prev = [from |-> "develop", exit |-> 0])
    => /\ currentBranch = "develop"
            => /\ exitCode = 0
               /\ git.local = pre.local
               /\ git.remote = pre.remote
               /\ git.commits = pre.commits
       /\ currentBranch = "main"
            => /\ exitCode = 1
               /\ err = "FromMain"
               /\ git = pre

\* C7 witness: the second promotion from develop has finished
C7_Witness ==
    /\ Exited
    /\ prev = [from |-> "develop", exit |-> 0]
    /\ currentBranch = "develop"
    /\ exitCode = 0
    /\ "push" \in ops

----------------------------------------------------------------------------
(* Squash promotion: failures *)

\* C8: when the squash merge fails, promotion exits non-zero at once:
\* develop is checked out and holds what the merge left, no commit was
\* made, nothing was pushed, the feature branch still exists locally and
\* on origin as before, and no abort or reset was issued.
C8_SquashFailureTerminal ==
    err = "SquashFailed"
    => /\ Exited
       /\ exitCode = 1
       /\ git.head = "develop"
       /\ git.index.st = "conflict"
       /\ Cardinality(DOMAIN git.commits) = Cardinality(DOMAIN pre.commits) + teammate
       /\ git.commits[git.local["develop"]].msg # commitMessage
       /\ git.local[currentBranch] = pre.local[currentBranch]
       /\ git.local[currentBranch] # NoCommit
       /\ git.remote[currentBranch] = pre.remote[currentBranch]
       /\ ops = {"fetch", "checkout", "pull", "merge --squash"}

\* C8 witness: a squash merge that conflicted
C8_Witness ==
    /\ Exited
    /\ err = "SquashFailed"
    /\ FromFeature

\* C9: promotion from a feature branch with uncommitted changes, or with an
\* empty message, exits non-zero and leaves every ref, the checkout, the
\* index, the working tree and origin exactly as they were.
C9_GuardRejectionNoEffect ==
    (Exited /\ FromFeature /\ (~CleanTree(pre) \/ commitMessage = <<>>))
    => /\ exitCode = 1
       /\ git = pre
       /\ ops = {}

\* C9 witness: a rejection for uncommitted changes, message given
C9_Witness ==
    /\ Exited
    /\ FromFeature
    /\ err = "DirtyTree"
    /\ commitMessage # <<>>

\* C10: with no develop locally or on origin, promotion from a clean feature
\* branch created from main exits 0 with main checked out and main's tip
\* carrying the supplied message.
C10_NoIntegrationBranch ==
    (/\ Exited
     /\ FromFeature
     /\ CleanWithMessage
     /\ pre.local["develop"] = NoCommit
     /\ pre.remote["develop"] = NoCommit
     /\ pre.local["main"] # NoCommit
     /\ Contains(pre.commits, pre.local["main"], pre.local[currentBranch]))
    => /\ exitCode = 0
       /\ git.head = "main"
       /\ git.commits[git.local["main"]].msg = commitMessage

----------------------------------------------------------------------------
(* git propagate: helpers *)

\* git branch lists the local branches sorted by name
BranchOrder == <<"develop", "feat/x", "main", "master">>

IsLocal(g, b) == g.local[b] # NoCommit

getAllBranches(g) == SelectSeq(BranchOrder, LAMBDA b : IsLocal(g, b))

branchExistsLocal(g, branch) == IsLocal(g, branch)

otherBranches(g, sourceBranch) ==
    SelectSeq(getAllBranches(g), LAMBDA b : b \notin {"main", "develop", sourceBranch})

\* git merge b with no option: fast-forward when possible, else a true merge;
\* git refuses any merge while an earlier one is unresolved in the index
GitMerge(g, b) ==
    IF g.index.st = "conflict" \/ g.local[b] = NoCommit THEN {Fail(g)}
    ELSE IF Contains(g.commits, g.local[b], Tip(g)) THEN {Ok(g)}
    ELSE IF Contains(g.commits, Tip(g), g.local[b])
         THEN {Ok([g EXCEPT !.local[g.head] = g.local[b]])}
         ELSE TrueMerge(g, g.local[b])

\* How the process's standard input reaches the readline interfaces.  On a
\* terminal one line arrives at a time; from a pipe (the tests' spawnSync
\* input) the whole input arrives as one chunk, and the interface listening
\* at that moment takes its first line as the answer and drops the rest.
StdinModes == {"tty", "pipe"}

\* rl.question(...) answered: what is left of standard input afterwards
AfterAnswer(f) == IF f.mode = "pipe" THEN "drained" ELSE f.stdin

\* readline.createInterface(...) resumes the input stream
AfterCreate(st) == IF st = "paused" THEN "open" ELSE st

\* rl.close() pauses the input stream, whoever else listens on it
AfterClose(st) == IF st = "open" THEN "paused" ELSE st

Outcomes == {"skipped", "merged+pushed", "merged-only", "merge-failed"}

StartFan(src, mode, g) ==
    [source |-> src, mode |-> mode, stdin |-> "open",
     candidates |-> <<>>, queue |-> <<>>, target |-> "none",
     asked |-> <<>>, pushAsked |-> <<>>,
     outcome |-> [b \in Branches |-> "none"], touched |-> {}, checkedOut |-> {}]

StartPropagate(f) ==
    /\ currentBranch' = git.head
    /\ commitMessage' = <<>>
    /\ pre' = git
    /\ ops' = {}
    /\ fan' = f
    /\ UNCHANGED <<git, prev, teammate, featRun, config, run>>

FanFrame == UNCHANGED <<currentBranch, commitMessage, pre, prev, teammate, featRun, config, run>>

----------------------------------------------------------------------------
(* git propagate: dispatch on the current branch *)

\* the dispatch without the fall-through to fan-out
PropagateFromMainAlways ==
    /\ pc = "idle"
    /\ git.head = "main"
    /\ \E mode \in StdinModes : StartPropagate(StartFan("main", mode, git))
    /\ Goto("pm_pullMain")

PropagateFromMain ==
    /\ pc = "idle"
    /\ git.head = "main"
    /\ \E mode \in StdinModes : StartPropagate(StartFan("main", mode, git))
    /\ IF ~branchExistsLocal(git, "develop") /\ ~branchExistsOnRemote(git, "develop")
       THEN Goto("po_pull")
       ELSE Goto("pm_pullMain")

PropagateFromDevelop ==
    /\ pc = "idle"
    /\ git.head = "develop"
    /\ \E mode \in StdinModes : StartPropagate(StartFan("develop", mode, git))
    /\ Goto("po_pull")

PropagateFromOther ==
    /\ pc = "idle"
    /\ git.head \notin {"main", "develop"}
    /\ \E mode \in StdinModes : StartPropagate(StartFan("none", mode, git))
    /\ Finish(1, "NotMainOrDevelop")

----------------------------------------------------------------------------
(* propagateMainToDevelop() *)

PM_PullMain ==
    /\ pc = "pm_pullMain"
    /\ Exec(GitPull(git, "main"), "pull", "pm_fetchDevelop", "Uncaught")

PM_FetchDevelop ==
    /\ pc = "pm_fetchDevelop"
    /\ Exec(GitFetchRefspec(git, "develop"), "fetch", "pm_checkout", "Uncaught")

PM_CheckoutDevelop ==
    /\ pc = "pm_checkout"
    /\ Exec(GitCheckout(git, "develop"), "checkout", "pm_pullDevelop", "Uncaught")

PM_PullDevelop ==
    /\ pc = "pm_pullDevelop"
    /\ Exec(GitPull(git, "develop"), "pull", "pm_merge", "Uncaught")

PM_MergeMain ==
    /\ pc = "pm_merge"
    /\ Exec(GitMergeFFOnly(git, "main"), "merge --ff-only", "pm_push", "CannotFastForward")

\* the push shares the try block of the merge; after it the function returns
PM_PushDevelop ==
    /\ pc = "pm_push"
    /\ \E o \in GitPush(git, "develop") :
        /\ git' = o.g
        /\ ops' = ops \cup {"push"}
        /\ IF o.ok THEN Finish(0, "none") ELSE Finish(1, "CannotFastForward")
    /\ Frame

PropagateMainToDevelop ==
    \/ PM_PullMain
    \/ PM_FetchDevelop
    \/ PM_CheckoutDevelop
    \/ PM_PullDevelop
    \/ PM_MergeMain
    \/ PM_PushDevelop

----------------------------------------------------------------------------
(* propagateSourceToOtherBranches(sourceBranch) and mergeSourceIntoBranch *)

\* the loop moves on: f is fan with the outcome of the candidate recorded
NextCandidate(f) ==
    LET rest == Tail(f.queue) IN
    /\ fan' = [f EXCEPT !.queue = rest, !.target = "none"]
    /\ IF rest = <<>> THEN Finish(0, "none") ELSE Goto("po_ask")

Settle(b, o) == [fan EXCEPT !.outcome[b] = o]

Touch(b) == [fan EXCEPT !.touched = @ \cup {b}]

\* git pull origin <source>, then the candidates are listed
PO_PullSource ==
    /\ pc = "po_pull"
    /\ \E o \in GitPull(git, fan.source) :
        /\ git' = o.g
        /\ ops' = ops \cup {"pull"}
        /\ IF ~o.ok THEN Finish(1, "Uncaught") /\ fan' = fan
           ELSE LET cs == otherBranches(o.g, fan.source) IN
                /\ fan' = [fan EXCEPT !.candidates = cs, !.queue = cs]
                /\ IF cs = <<>> THEN Finish(0, "none") ELSE Goto("po_ask")
    /\ FanFrame

\* the merge prompt with the fetch of the candidate done before the answer
PO_AskMergeEager ==
    /\ pc = "po_ask"
    /\ fan.stdin = "open"
    /\ LET b == Head(fan.queue)
           f == [fan EXCEPT !.asked = Append(@, b), !.stdin = AfterAnswer(fan),
                            !.touched = @ \cup {b}] IN
       \E shouldMerge \in BOOLEAN, o \in GitFetchRefspec(git, b) :
          /\ git' = o.g
          /\ IF shouldMerge
             THEN fan' = [f EXCEPT !.target = b] /\ Goto("pt_fetch")
             ELSE NextCandidate([f EXCEPT !.outcome[b] = "skipped"])
    /\ ops' = ops \cup {"fetch"}
    /\ FanFrame

\* the merge prompt of the loop's interface: with the input stream paused or
\* used up no answer ever comes, the event loop runs dry and the process
\* ends with status 0
PO_AskMerge ==
    /\ pc = "po_ask"
    /\ LET b == Head(fan.queue)
           f == [fan EXCEPT !.asked = Append(@, b)] IN
       IF fan.stdin # "open"
       THEN fan' = f /\ Finish(0, "NoAnswer")
       ELSE \E shouldMerge \in BOOLEAN :
              LET f1 == [f EXCEPT !.stdin = AfterAnswer(f)] IN
              IF shouldMerge
              THEN fan' = [f1 EXCEPT !.target = b] /\ Goto("pt_fetch")
              ELSE NextCandidate([f1 EXCEPT !.outcome[b] = "skipped"])
    /\ UNCHANGED <<git, ops>>
    /\ FanFrame

\* git fetch origin b:b, a failure is taken for a local-only branch
PT_Fetch ==
    /\ pc = "pt_fetch"
    /\ \E o \in GitFetchRefspec(git, fan.target) : git' = o.g
    /\ ops' = ops \cup {"fetch"}
    /\ fan' = Touch(fan.target)
    /\ Goto("pt_checkout")
    /\ FanFrame

\* git checkout b; an error leaves mergeSourceIntoBranch for the loop's catch
PT_Checkout ==
    /\ pc = "pt_checkout"
    /\ \E o \in GitCheckout(git, fan.target) :
        /\ git' = o.g
        /\ IF o.ok
           THEN fan' = [fan EXCEPT !.checkedOut = @ \cup {fan.target}] /\ Goto("pt_pull")
           ELSE NextCandidate(Settle(fan.target, "merge-failed"))
    /\ ops' = ops \cup {"checkout"}
    /\ FanFrame

\* git pull origin b, a failure is taken for a branch without remote
PT_Pull ==
    /\ pc = "pt_pull"
    /\ \E o \in GitPull(git, fan.target) : git' = o.g
    /\ ops' = ops \cup {"pull"}
    /\ Goto("pt_merge")
    /\ UNCHANGED fan
    /\ FanFrame

\* git merge <source>
PT_Merge ==
    /\ pc = "pt_merge"
    /\ \E o \in GitMerge(git, fan.source) :
        /\ git' = o.g
        /\ IF o.ok THEN fan' = fan /\ Goto("pt_askPush")
           ELSE NextCandidate(Settle(fan.target, "merge-failed"))
    /\ ops' = ops \cup {"merge"}
    /\ FanFrame

\* a second interface on the same input asks whether to push, then closes
PT_AskPush ==
    /\ pc = "pt_askPush"
    /\ LET b == fan.target
           st == AfterCreate(fan.stdin)
           f == [fan EXCEPT !.pushAsked = Append(@, b), !.stdin = st] IN
       IF st # "open"
       THEN fan' = f /\ Finish(0, "NoAnswer")
       ELSE \E shouldPush \in BOOLEAN :
              LET f1 == [f EXCEPT !.stdin = AfterClose(AfterAnswer(f))] IN
              IF shouldPush
              THEN fan' = f1 /\ Goto("pt_push")
              ELSE NextCandidate([f1 EXCEPT !.outcome[b] = "merged-only"])
    /\ UNCHANGED <<git, ops>>
    /\ FanFrame

\* git push origin b, a failure is only a warning
PT_Push ==
    /\ pc = "pt_push"
    /\ \E o \in GitPush(git, fan.target) :
        /\ git' = o.g
        /\ NextCandidate(Settle(fan.target, IF o.ok THEN "merged+pushed" ELSE "merged-only"))
    /\ ops' = ops \cup {"push"}
    /\ FanFrame

PropagateFanOut ==
    \/ PO_PullSource
    \/ PO_AskMerge
    \/ PT_Fetch
    \/ PT_Checkout
    \/ PT_Pull
    \/ PT_Merge
    \/ PT_AskPush
    \/ PT_Push

----------------------------------------------------------------------------
(* Repositories git propagate can be started in *)

\* main and develop with origin, one of them perhaps missing or degenerate
InitMainToDevelop ==
    \E ml \in 1..InitCommits, mr \in 0..InitCommits,
       dl \in 0..InitCommits, dr \in 0..InitCommits :
        LET loc == Refs(ml, NoCommit, dl, NoCommit)
            rem == Refs(mr, NoCommit, dr, NoCommit) IN
        Idle([commits |-> InitGraph, local |-> loc, remote |-> rem,
              tracking |-> rem, head |-> "main", index |-> NoIndex, dirty |-> FALSE])

\* a source branch (develop, or main without any develop) level with
\* origin, and up to two other local branches, pushed or not
InitFanOut ==
    \E h \in {"main", "develop", "feat/x"}, sl \in 1..InitCommits,
       fl \in 0..InitCommits, fr \in 0..InitCommits,
       ms \in 0..InitCommits, msPushed \in BOOLEAN :
        LET src == IF h = "main" THEN "main" ELSE "develop"
            loc == Refs(IF src = "main" THEN sl ELSE 1, ms,
                        IF src = "develop" THEN sl ELSE NoCommit, fl)
            rem == Refs(IF src = "main" THEN sl ELSE 1,
                        IF msPushed THEN ms ELSE NoCommit,
                        IF src = "develop" THEN sl ELSE NoCommit, fr) IN
        /\ loc[h] # NoCommit
        /\ Idle([commits |-> InitGraph, local |-> loc, remote |-> rem,
                 tracking |-> rem, head |-> h, index |-> NoIndex, dirty |-> FALSE])

InitPropagate == InitMainToDevelop \/ InitFanOut

NextPropagate ==
    \/ PropagateFromMain
    \/ PropagateFromDevelop
    \/ PropagateFromOther
    \/ PropagateMainToDevelop
    \/ PropagateFanOut

SpecPropagate == InitPropagate /\ [][NextPropagate]_vars

----------------------------------------------------------------------------
(* Propagation *)

MainToDevelopSteps ==
    {"pm_pullMain", "pm_fetchDevelop", "pm_checkout", "pm_pullDevelop", "pm_merge", "pm_push"}
FanOutSteps ==
    {"po_pull", "po_ask", "pt_fetch", "pt_checkout", "pt_pull", "pt_merge", "pt_askPush", "pt_push"}
LoopSteps == FanOutSteps \ {"po_pull"}
\* develop existed, locally or on origin, when the command started
HadDevelop == pre.local["develop"] # NoCommit \/ pre.remote["develop"] # NoCommit
\* the command runs, or ran, the fan-out with source s
InFanOut(s) ==
    /\ pc \in FanOutSteps \cup {"exited"}
    /\ fan.source = s
    /\ "merge --ff-only" \notin ops
\* the local branches a fan-out from source s must offer, in listing order
Offered(g, s) ==
    SelectSeq(BranchOrder, LAMBDA b : g.local[b] # NoCommit /\ b \notin {"main", "develop", s})
\* the fan-out got past the update of its source branch
Enumerated == fan.source \in {"main", "develop"} /\ "merge --ff-only" \notin ops
                /\ (pc \in LoopSteps \/ (pc = "exited" /\ err # "Uncaught"))
                /\ pc # "po_pull"
IsPrefix(p, q) == Len(p) <= Len(q) /\ \A i \in 1..Len(p) : p[i] = q[i]
Range(q) == {q[i] : i \in 1..Len(q)}

C12_MainToDevelopFastForward ==
    (Exited /\ currentBranch = "main" /\ HadDevelop) =>
       /\ exitCode = 0
            => /\ git.local["develop"] = git.local["main"]
               /\ git.remote["develop"] = git.local["develop"]
               /\ DOMAIN git.commits = DOMAIN pre.commits
       /\ (err # "Uncaught" /\ Lacks(git, "main", git.local["develop"]))
            => /\ exitCode = 1
               /\ git.remote["develop"] = pre.remote["develop"]
               /\ DOMAIN git.commits = DOMAIN pre.commits

\* C13: the candidates are the local branches other than main, develop and
\* the source, in listing order; the merge prompts go to them in that
\* order, once each, each after the processing of the one before is over;
\* and the command ends with one outcome for every candidate.
C13_PromptsAndOutcomes ==
    Enumerated =>
       /\ fan.candidates = Offered(pre, fan.source)
       /\ IsPrefix(fan.asked, fan.candidates)
       /\ \A i \in 1..Len(fan.asked) :
            (i < Len(fan.asked) \/ pc \in {"po_ask", "exited"})
               => (fan.outcome[fan.asked[i]] \in Outcomes
                     \/ (i = Len(fan.asked) /\ pc = "exited"))
       /\ Exited => /\ fan.asked = fan.candidates
                    /\ \A b \in Range(fan.candidates) : fan.outcome[b] \in Outcomes

\* one step of the fan-out loop, as C14 wants it
OnlyAcceptedStep ==
    pc \in LoopSteps =>
         /\ \A b \in {"main", "develop"} :
              /\ git'.local[b] = git.local[b]
              /\ git'.remote[b] = git.remote[b]
         /\ \A b \in Branches :
              /\ git.local[b] # NoCommit => git'.local[b] # NoCommit
              /\ git.remote[b] # NoCommit => git'.remote[b] # NoCommit
              /\ fan'.outcome[b] = "skipped"
                   => /\ b \notin fan'.touched
                      /\ git'.local[b] = pre.local[b]
                      /\ git'.remote[b] = pre.remote[b]
                      /\ git'.head # b
         /\ (pc = "po_ask" /\ fan'.outcome[Head(fan.queue)] = "skipped")
              => /\ git' = git
                 /\ ops' = ops
                 /\ IF Len(fan.queue) > 1
                    THEN pc' = "po_ask" /\ fan'.queue = Tail(fan.queue)
                    ELSE pc' = "exited" /\ exitCode' = 0

\* C14: in the fan-out loop a candidate the operator declines is never
\* fetched into, checked out, merged into or pushed: its local and remote
\* refs stay as they were and the loop goes on with the next candidate, or
\* ends with exit 0 after the last; no step of the loop changes a ref of
\* main or develop, local or on origin, and none deletes a branch.
C14_OnlyAcceptedTargets == [][OnlyAcceptedStep]_vars

\* C14 witness: a fan-out that ended with one candidate declined and
\* another merged and pushed
C14_Witness ==
    /\ Exited
    /\ exitCode = 0
    /\ \E b \in Branches, c \in Branches :
        /\ fan.outcome[b] = "skipped"
        /\ fan.outcome[c] = "merged+pushed"

\* C15: each accepted target is an independent unit of work: whatever
\* happened to the targets before it, an accepted target is checked out
\* and merged, so a target's failure is only ever a failure of its own merge.
C15_FailureIsolation ==
    \A b \in Branches :
        fan.source \in {"main", "develop"} /\ fan.outcome[b] \in Outcomes \ {"skipped"}
           => b \in fan.checkedOut

----------------------------------------------------------------------------
(* git feat: the argument, its type prefix and its slug *)

\* characters of the argument: two lower-case letters, an upper-case one,
\* the colon, white space, the hyphen, a separator and a character that no
\* branch name keeps
FeatChars == {"c", "I", "x", ":", " ", "-", ".", "!"}
Letters == {"c", "I", "x", "i"}
SlugChars == {"c", "i", "x", "-"}

ArgsUpTo(n) == UNION {[1..k -> FeatChars] : k \in 0..n}

SUPPORTED_TYPES ==
    { <<"f","e","a","t">>, <<"f","i","x">>, <<"d","o","c","s">>, <<"s","t","y","l","e">>,
      <<"r","e","f","a","c","t","o","r">>, <<"p","e","r","f">>, <<"t","e","s","t">>,
      <<"b","u","i","l","d">>, <<"c","i">>, <<"c","h","o","r","e">>,
      <<"r","e","v","e","r","t">> }

\* String.prototype.toLowerCase
toLowerCase(s) == [k \in 1..Len(s) |-> IF s[k] = "I" THEN "i" ELSE s[k]]

\* s.replace(/[cs]/g, r) for a set cs of characters
ReplaceEach(s, cs, r) == [k \in 1..Len(s) |-> IF s[k] \in cs THEN r ELSE s[k]]

\* s.replace(/c+/g, r) for one character class cs: every run becomes one r
RECURSIVE ReplaceRuns(_, _, _)
ReplaceRuns(s, cs, r) ==
    IF s = <<>> THEN <<>>
    ELSE IF Head(s) \notin cs THEN <<Head(s)>> \o ReplaceRuns(Tail(s), cs, r)
    ELSE IF Len(s) > 1 /\ s[2] \in cs THEN ReplaceRuns(Tail(s), cs, r)
    ELSE r \o ReplaceRuns(Tail(s), cs, r)

\* s.replace(/--+/g, "-"): runs of two or more hyphens become one
CollapseHyphens(s) == ReplaceRuns(s, {"-"}, <<"-">>)

\* s.replace(/^-+/, "")
RECURSIVE StripLeading(_)
StripLeading(s) == IF s # <<>> /\ Head(s) = "-" THEN StripLeading(Tail(s)) ELSE s

\* s.replace(/-+$/, "")
RECURSIVE StripTrailing(_)
StripTrailing(s) ==
    IF s # <<>> /\ s[Len(s)] = "-" THEN StripTrailing(SubSeq(s, 1, Len(s) - 1)) ELSE s

\* slugify without the last replace
slugifyKeepTrailing(input) ==
    StripLeading(
      CollapseHyphens(
        ReplaceRuns(
          ReplaceRuns(ReplaceEach(toLowerCase(input), {".", "_"}, "-"), {" "}, <<"-">>),
          FeatChars \ SlugChars, <<>>)))

slugify(input) ==
    StripTrailing(
      StripLeading(
        CollapseHyphens(
          ReplaceRuns(
            ReplaceRuns(ReplaceEach(toLowerCase(input), {".", "_"}, "-"), {" "}, <<"-">>),
            FeatChars \ SlugChars, <<>>))))

\* the letters the argument starts with
RECURSIVE LeadingLetters(_)
LeadingLetters(s) ==
    IF s # <<>> /\ Head(s) \in Letters THEN <<Head(s)>> \o LeadingLetters(Tail(s)) ELSE <<>>

RECURSIVE TrimStart(_)
TrimStart(s) == IF s # <<>> /\ Head(s) = " " THEN TrimStart(Tail(s)) ELSE s

\* /^([a-zA-Z]+):\s*(.+)$/.exec(trimmed): the two groups, or no match
TypeMatch(trimmed) ==
    LET w == LeadingLetters(trimmed)
        after == SubSeq(trimmed, Len(w) + 2, Len(trimmed)) IN
    IF w # <<>> /\ Len(trimmed) > Len(w) /\ trimmed[Len(w) + 1] = ":" /\ after # <<>>
    THEN [matched |-> TRUE, type |-> w, rest |-> TrimStart(after)]
    ELSE [matched |-> FALSE, type |-> <<>>, rest |-> <<>>]

parseTypeAndSubject(raw) ==
    LET trimmed == Trim(raw)
        m == TypeMatch(trimmed) IN
    IF trimmed = <<>> THEN [ok |-> FALSE, error |-> "EmptyMessage", type |-> <<>>, subject |-> <<>>]
    ELSE IF m.matched
         THEN IF toLowerCase(m.type) \in SUPPORTED_TYPES
              THEN [ok |-> TRUE, error |-> "none", type |-> toLowerCase(m.type),
                    subject |-> Trim(m.rest)]
              ELSE [ok |-> FALSE, error |-> "UnsupportedType", type |-> toLowerCase(m.type),
                    subject |-> <<>>]
         ELSE [ok |-> TRUE, error |-> "none", type |-> <<"f","e","a","t">>, subject |-> trimmed]

----------------------------------------------------------------------------
(* git feat: the command *)

FEAT == <<"f","e","a","t">>
NoName == [type |-> <<>>, slug |-> <<>>]
\* the branch feat/x of Branches as <type>/<slug>
FeatX == [type |-> FEAT, slug |-> <<"x">>]

\* what the operator may type at the update prompt; EOF is the input ending
Answers == {"", "y", "n", "maybe", "EOF"}

\* the state of one git feat run, in a clone whose base has an upstream
\* configured or not, which may hold a local branch named feat, and whose
\* origin may hold a branch wip/feat/x
StartFeat(upstream, bareFeat, nested) ==
    [arg |-> <<>>, upstream |-> upstream, bareFeat |-> bareFeat, nested |-> nested,
     behind |-> 0, ahead |-> 0, prompted |-> FALSE, answer |-> "none",
     parsed |-> FALSE, name |-> NoName, created |-> NoName, at |-> NoCommit]

\* git fetch --prune: the remote-tracking refs become origin's refs
GitFetchPrune(g) == {Ok([g EXCEPT !.tracking = g.remote])}

\* git rev-list --left-right --count origin/<branch>...<branch>
aheadBehind(g, branch) ==
    IF g.tracking[branch] = NoCommit THEN [behind |-> 0, ahead |-> 0]
    ELSE LET theirs == Ancestors(g.commits, g.tracking[branch])
             ours == Ancestors(g.commits, g.local[branch]) IN
         [behind |-> Cardinality(theirs \ ours), ahead |-> Cardinality(ours \ theirs)]

\* promptYesNo(message, defaultYes = true) for an answer that arrived
promptYesNo(answer) == answer # "n"

\* an update that takes origin's tip whatever the base holds
GitPullReset(g, upstream) ==
    LET b == g.head
        r == g.remote[b] IN
    IF ~upstream \/ r = NoCommit THEN {Fail(g)}
    ELSE {Ok([g EXCEPT !.tracking[b] = r, !.local[b] = r])}

\* git pull --ff-only with no argument: needs the upstream configuration
GitPullFFOnly(g, upstream) ==
    LET b == g.head
        r == g.remote[b] IN
    IF ~upstream \/ r = NoCommit THEN {Fail(g)}
    ELSE LET g1 == [g EXCEPT !.tracking[b] = r] IN
         IF Contains(g.commits, r, g.local[b]) THEN {Ok(g1)}
         ELSE IF Contains(g.commits, g.local[b], r)
              THEN {Ok([g1 EXCEPT !.local[b] = r])}
              ELSE {Fail(g1)}

\* git show-ref --verify --quiet refs/heads/<name>
featBranchExistsLocal(g, name) == name = FeatX /\ g.local["feat/x"] # NoCommit

\* git ls-remote --heads origin <name> prints every branch of origin whose
\* name is <name> or ends in /<name>
featBranchExistsRemote(g, f, name) ==
    name = FeatX /\ (g.remote["feat/x"] # NoCommit \/ f.nested)

\* git checkout -b <name>: refused when <name> exists or when a branch
\* named like its first component does; a new branch outside Branches is
\* kept in the run's created and at fields
GitCheckoutNew(g, f, name) ==
    IF featBranchExistsLocal(g, name) \/ (f.bareFeat /\ name.type = FEAT)
    THEN {Fail(g)}
    ELSE IF name = FeatX
         THEN {Ok([g EXCEPT !.local["feat/x"] = Tip(g), !.head = "feat/x"])}
         ELSE {Ok(g)}

FeatFrame == UNCHANGED <<currentBranch, commitMessage, pre, prev, teammate, fan, config, run>>

\* ensureAllowedBase letting every branch through
FeatFromAnywhere ==
    /\ pc = "idle"
    /\ currentBranch' = git.head
    /\ pre' = git
    /\ ops' = {}
    /\ Goto("gf_fetch")
    /\ UNCHANGED <<git, commitMessage, prev, teammate, fan, featRun, config, run>>

\* base = getCurrentBranch(); ensureAllowedBase(base)
FeatStartRun ==
    /\ pc = "idle"
    /\ currentBranch' = git.head
    /\ pre' = git
    /\ ops' = {}
    /\ IF git.head # "develop" /\ git.head # "main"
       THEN Finish(1, "NotAllowedBase")
       ELSE Goto("gf_fetch")
    /\ UNCHANGED <<git, commitMessage, prev, teammate, fan, featRun, config, run>>

\* fetchOrigin(): errors are ignored
GF_Fetch ==
    /\ pc = "gf_fetch"
    /\ \E o \in GitFetchPrune(git) : git' = o.g
    /\ ops' = ops \cup {"fetch"}
    /\ Goto("gf_count")
    /\ UNCHANGED featRun
    /\ FeatFrame

\* the prompt shown only when the base is behind
GF_AheadBehindOnlyBehind ==
    /\ pc = "gf_count"
    /\ LET c == aheadBehind(git, currentBranch) IN
        /\ featRun' = [featRun EXCEPT !.behind = c.behind, !.ahead = c.ahead]
        /\ IF c.behind > 0 THEN Goto("gf_prompt") ELSE Goto("gf_parse")
    /\ UNCHANGED <<git, ops>>
    /\ FeatFrame

\* const { behind, ahead } = aheadBehind(base); if (behind > 0 || ahead > 0)
GF_AheadBehind ==
    /\ pc = "gf_count"
    /\ LET c == aheadBehind(git, currentBranch) IN
        /\ featRun' = [featRun EXCEPT !.behind = c.behind, !.ahead = c.ahead]
        /\ IF c.behind > 0 \/ c.ahead > 0 THEN Goto("gf_prompt") ELSE Goto("gf_parse")
    /\ UNCHANGED <<git, ops>>
    /\ FeatFrame

\* shouldUpdate = await promptYesNo(...): with the input at its end the
\* question is never answered and the process ends with status 0
GF_Prompt ==
    /\ pc = "gf_prompt"
    /\ \E a \in Answers :
        /\ featRun' = [featRun EXCEPT !.prompted = TRUE, !.answer = a]
        /\ IF a = "EOF" THEN Finish(0, "NoAnswer")
           ELSE IF promptYesNo(a) THEN Goto("gf_pull") ELSE Goto("gf_parse")
    /\ UNCHANGED <<git, ops>>
    /\ FeatFrame

\* tryFastForwardPull(base)
GF_Pull ==
    /\ pc = "gf_pull"
    /\ \E o \in GitPullFFOnly(git, featRun.upstream) :
        /\ git' = o.g
        /\ IF o.ok THEN Goto("gf_parse") ELSE Finish(1, "CannotFastForward")
    /\ ops' = ops \cup {"pull --ff-only"}
    /\ UNCHANGED featRun
    /\ FeatFrame

\* message = argv._.join(" ").trim(); parseTypeAndSubject(message);
\* slugify(subject); the argument is one of args
GF_ParseFrom(args) ==
    /\ pc = "gf_parse"
    /\ \E raw \in args :
        LET p == parseTypeAndSubject(Trim(raw))
            slug == slugify(p.subject)
            f == [featRun EXCEPT !.arg = raw, !.parsed = TRUE] IN
        IF ~p.ok THEN featRun' = f /\ Finish(1, p.error)
        ELSE IF slug = <<>> THEN featRun' = f /\ Finish(1, "EmptySlug")
        ELSE /\ featRun' = [f EXCEPT !.name = [type |-> p.type, slug |-> slug]]
             /\ Goto("gf_existsLocal")
    /\ UNCHANGED <<git, ops>>
    /\ FeatFrame

\* the arguments of the runs that follow the whole command
FlowChars == {"c", "x", ":"}
FlowArgs == {a \in ArgsUpTo(FlowArgLen) : \A i \in 1..Len(a) : a[i] \in FlowChars}

GF_Parse == GF_ParseFrom(FlowArgs)

GF_ParseLong == GF_ParseFrom(ArgsUpTo(MaxArgLen))

\* if (branchExistsLocal(newBranch))
GF_ExistsLocal ==
    /\ pc = "gf_existsLocal"
    /\ IF featBranchExistsLocal(git, featRun.name)
       THEN Finish(1, "ExistsLocal")
       ELSE Goto("gf_existsRemote")
    /\ UNCHANGED <<git, ops, featRun>>
    /\ FeatFrame

\* if (branchExistsRemote(newBranch))
GF_ExistsRemote ==
    /\ pc = "gf_existsRemote"
    /\ IF featBranchExistsRemote(git, featRun, featRun.name)
       THEN Finish(1, "ExistsRemote")
       ELSE Goto("gf_create")
    /\ UNCHANGED <<git, ops, featRun>>
    /\ FeatFrame

\* createBranch(newBranch): the new branch starts at HEAD and is checked out
GF_Create ==
    /\ pc = "gf_create"
    /\ \E o \in GitCheckoutNew(git, featRun, featRun.name) :
        /\ git' = o.g
        /\ IF o.ok
           THEN /\ featRun' = [featRun EXCEPT !.created = featRun.name, !.at = Tip(git)]
                /\ Finish(0, "none")
           ELSE featRun' = featRun /\ Finish(1, "CreateFailed")
    /\ ops' = ops \cup {"checkout -b"}
    /\ FeatFrame

----------------------------------------------------------------------------
(* Repositories git feat can be started in *)

FeatIdle(g, f) ==
    /\ git = g
    /\ pre = g
    /\ pc = "idle"
    /\ currentBranch = g.head
    /\ commitMessage = <<>>
    /\ exitCode = NoExit
    /\ err = "none"
    /\ ops = {}
    /\ prev = NoPrev
    /\ teammate = 0
    /\ fan = NoFan
    /\ featRun = f
    /\ config = PlainConfig
    /\ run = NoRun

\* what may stand in the way of the name feat/x: a local branch feat/x, a
\* branch feat/x on origin, a branch wip/feat/x on origin, a local branch feat
Collisions == {"none", "local", "remote", "nested", "bareFeat"}

\* develop, main or a feature branch checked out; the base anywhere
\* relative to origin's, its remote-tracking ref as of the clone
InitFeat ==
    \E h \in {"develop", "main", "feat/x"}, bl \in 1..InitCommits, br \in 0..InitCommits,
       col \in Collisions, upstream \in BOOLEAN :
        LET fl == IF col = "local" \/ h = "feat/x" THEN 1 ELSE NoCommit
            fr == IF col = "remote" THEN 1 ELSE NoCommit
            loc == Refs(IF h = "main" THEN bl ELSE NoCommit, NoCommit,
                        IF h # "main" THEN bl ELSE NoCommit, fl)
            rem == Refs(IF h = "main" THEN br ELSE NoCommit, NoCommit,
                        IF h # "main" THEN br ELSE NoCommit, fr)
            trk == [b \in Branches |-> IF rem[b] = NoCommit THEN NoCommit ELSE 1] IN
        /\ (br = NoCommit => ~upstream)
        /\ (h = "feat/x" => bl = 1 /\ br = 1 /\ upstream /\ col = "local")
        /\ FeatIdle([commits |-> InitGraph, local |-> loc, remote |-> rem,
                     tracking |-> trk, head |-> h, index |-> NoIndex, dirty |-> FALSE],
                    StartFeat(upstream, col = "bareFeat", col = "nested"))

NextFeat ==
    \/ FeatStartRun
    \/ GF_Fetch
    \/ GF_AheadBehind
    \/ GF_Prompt
    \/ GF_Pull
    \/ GF_Parse
    \/ GF_ExistsLocal
    \/ GF_ExistsRemote
    \/ GF_Create

SpecFeat == InitFeat /\ [][NextFeat]_vars

\* develop checked out and level with origin, feat/x perhaps existing
InitFeatArg ==
    \E fx \in {"none", "local", "remote"} :
        LET loc == Refs(NoCommit, NoCommit, 1, IF fx = "local" THEN 1 ELSE NoCommit)
            rem == Refs(NoCommit, NoCommit, 1, IF fx = "remote" THEN 1 ELSE NoCommit) IN
        FeatIdle([commits |-> InitGraph, local |-> loc, remote |-> rem,
                  tracking |-> rem, head |-> "develop", index |-> NoIndex, dirty |-> FALSE],
                 StartFeat(TRUE, FALSE, FALSE))

NextFeatArg ==
    \/ FeatStartRun
    \/ GF_Fetch
    \/ GF_AheadBehind
    \/ GF_ParseLong
    \/ GF_ExistsLocal
    \/ GF_ExistsRemote
    \/ GF_Create

SpecFeatArg == InitFeatArg /\ [][NextFeatArg]_vars

----------------------------------------------------------------------------
(* Feature Initializer claims *)

FeatExited == pc = "exited"
FeatRejected == FeatExited /\ exitCode # 0
FeatCreated == featRun.created # NoName
SameBranchSet(refs, before) ==
    \A b \in Branches : (refs[b] = NoCommit) <=> (before[b] = NoCommit)

\* C16: git feat creates a branch only when started on develop or main;
\* started anywhere else it exits non-zero with no fetch and no prompt
\* behind it; every invocation that exits non-zero leaves the sets of local
\* and remote branches as they were and the current branch the one it
\* started on.
C16_RejectionsCreateNothing ==
    /\ FeatCreated => pre.head \in {"develop", "main"}
    /\ (pc # "idle" /\ pre.head \notin {"develop", "main"}) =>
          /\ FeatRejected
          /\ ops = {}
          /\ ~featRun.prompted
    /\ FeatRejected =>
          /\ ~FeatCreated
          /\ SameBranchSet(git.local, pre.local)
          /\ SameBranchSet(git.remote, pre.remote)
          /\ git.remote = pre.remote
          /\ git.head = pre.head
          /\ err \in {"NotAllowedBase", "EmptyMessage", "UnsupportedType", "EmptySlug",
                      "ExistsLocal", "ExistsRemote", "CannotFastForward", "CreateFailed"}

C16_Witness ==
    /\ FeatRejected
    /\ err = "NotAllowedBase"
    /\ pre.head = "feat/x"

\* the message of the run and the claim's reading of it: a leading token
\* matching ^[a-zA-Z]+: and what follows it
FeatMessage == Trim(featRun.arg)
PrefixWord == LeadingLetters(FeatMessage)
HasPrefix ==
    /\ PrefixWord # <<>>
    /\ Len(FeatMessage) > Len(PrefixWord)
    /\ FeatMessage[Len(PrefixWord) + 1] = ":"
Remainder == Trim(SubSeq(FeatMessage, Len(PrefixWord) + 2, Len(FeatMessage)))
StatedType == IF HasPrefix THEN toLowerCase(PrefixWord) ELSE FEAT
StatedSubject == IF HasPrefix THEN Remainder ELSE FeatMessage

\* C17: for every message, a leading <type>: with one of the 11 types in any
\* letter case selects that type and the remainder as subject; a leading
\* token matching ^[a-zA-Z]+: with any other type ends the run with the
\* unsupported-type error and no branch; a message with no such token has
\* type feat and itself as subject; the branch is named
\* <type>/<slug(subject)>.
C17_TypeParsing ==
    (featRun.parsed /\ FeatMessage # <<>>) =>
        IF HasPrefix /\ StatedType \notin SUPPORTED_TYPES
        THEN /\ FeatRejected
             /\ err = "UnsupportedType"
             /\ ~FeatCreated
        ELSE IF slugify(StatedSubject) = <<>>
        THEN FeatRejected /\ err = "EmptySlug"
        ELSE /\ featRun.name = [type |-> StatedType, slug |-> slugify(StatedSubject)]
             /\ FeatCreated => featRun.created = featRun.name

\* [a-z0-9]+(-[a-z0-9]+)* or empty
WellFormedSlug(s) ==
    /\ \A k \in 1..Len(s) : s[k] \in SlugChars
    /\ s # <<>> => s[1] # "-" /\ s[Len(s)] # "-"
    /\ \A k \in 1..(Len(s) - 1) : ~(s[k] = "-" /\ s[k + 1] = "-")

\* C18: slugify applied to its own output gives that output, and every
\* output is empty or lowercase letters, digits and single hyphens with no
\* hyphen first or last; for the whole argument of the run and for the slug
\* the run computed from its subject.
C18_SlugifyIdempotent ==
    featRun.parsed =>
        /\ slugify(slugify(featRun.arg)) = slugify(featRun.arg)
        /\ WellFormedSlug(slugify(featRun.arg))
        /\ slugify(featRun.name.slug) = featRun.name.slug
        /\ WellFormedSlug(featRun.name.slug)

C18_Witness ==
    /\ featRun.parsed
    /\ Len(featRun.arg) = MaxArgLen
    /\ featRun.name.slug = <<"x", "-", "c">>
    /\ slugify(featRun.arg) = <<"x", "-", "c">>

\* a branch named exactly like the run's <type>/<slug> existed, locally or
\* on origin, when the run started
NameTaken ==
    /\ featRun.name = FeatX
    /\ (pre.local["feat/x"] # NoCommit \/ pre.remote["feat/x"] # NoCommit)

\* C19: a run that computed its branch name exits non-zero when a branch of
\* exactly that name exists locally or on origin, with the existing branch
\* where it was and not checked out; otherwise it creates the branch at the
\* base's tip of that moment and checks it out; origin's branches are the
\* same either way.
C19_NameCollision ==
    (FeatExited /\ featRun.name # NoName) =>
        IF NameTaken
        THEN /\ FeatRejected
             /\ ~FeatCreated
             /\ git.local["feat/x"] = pre.local["feat/x"]
             /\ git.head = pre.head
             /\ git.remote = pre.remote
        ELSE /\ exitCode = 0
             /\ featRun.created = featRun.name
             /\ featRun.at = git.local[pre.head]
             /\ featRun.name = FeatX =>
                   git.head = "feat/x" /\ git.local["feat/x"] = git.local[pre.head]
             /\ featRun.name # FeatX => git.head = pre.head /\ git.local = [pre.local EXCEPT ![pre.head] = featRun.at]
             /\ git.remote = pre.remote

\* the base of the run against origin's branch of the same name, as the run
\* found them
BaseLocal == pre.local[pre.head]
BaseRemote == pre.remote[pre.head]
OutOfDate == BaseRemote # NoCommit /\ BaseRemote # BaseLocal
Diverged ==
    /\ OutOfDate
    /\ ~Contains(pre.commits, BaseRemote, BaseLocal)
    /\ ~Contains(pre.commits, BaseLocal, BaseRemote)
PastCount == pc \notin {"idle", "gf_fetch", "gf_count"} /\ pre.head \in {"develop", "main"}
AtPrompt == pc = "gf_prompt" \/ featRun.prompted
SaidYes == featRun.answer \in {"", "y"}
Pulled == "pull --ff-only" \in ops

AheadOnly == featRun.ahead > 0 /\ featRun.behind = 0

----------------------------------------------------------------------------
(* git cleanup and git done: what git branch -vv prints and how it is read *)

\* a commit subject that quotes the marker, as in "fix: detect [gone]
\* branches": the texts "[" and "gone]" are two symbols of the subject
GoneSubject == <<"[", "gone]">>

\* String.prototype.includes for one symbol of a subject
Includes(subject, sym) == \E k \in 1..Len(subject) : subject[k] = sym

\* the remote-tracking ref of the branch's upstream
UpstreamRef(g, c, b) ==
    IF c.upstream[b] = "origin" THEN g.tracking[b]
    ELSE IF c.upstream[b] = "none" THEN NoCommit
    ELSE c.elsewhere[b]

\* what git branch -vv puts in brackets after the commit id: nothing,
\* [origin/b] (with or without ahead/behind) or [origin/b: gone]
Annotation(g, c, b) ==
    IF c.upstream[b] = "none" THEN "none"
    ELSE IF UpstreamRef(g, c, b) = NoCommit THEN "gone"
    ELSE "present"

\* one line of git branch -vv: the * of the current branch, the name, the
\* annotation, the subject of the tip commit
BranchLine(g, c, b) ==
    [current |-> g.head = b, name |-> b, upstream |-> Annotation(g, c, b),
     subject |-> g.commits[g.local[b]].msg]

GitBranchVV(g, c) ==
    LET bs == getAllBranches(g) IN [k \in 1..Len(bs) |-> BranchLine(g, c, bs[k])]

\* line.includes("[") && line.includes("gone]"), over the whole line
lineIsGone(line) ==
    /\ line.upstream # "none" \/ Includes(line.subject, "[")
    /\ line.upstream = "gone" \/ Includes(line.subject, "gone]")

RECURSIVE Names(_)
Names(lines) == IF lines = <<>> THEN <<>> ELSE <<Head(lines).name>> \o Names(Tail(lines))

\* findGoneBranches(branchOutput)
findGoneBranches(lines) == Names(SelectSeq(lines, lineIsGone))

\* git fetch --prune and git fetch --all --prune: origin's refs become the
\* remote-tracking refs, or the remote cannot be reached
GitFetchAllPrune(g) == {Ok([g EXCEPT !.tracking = g.remote]), Fail(g)}

\* the locals of one git cleanup, started on its own or by git done, in a
\* clone configured as c
StartCleanup(parent, c) ==
    [cmd |-> "cleanup", parent |-> parent, targetBase |-> "none",
     goneBranches |-> <<>>, queue |-> <<>>, was |-> c]

RunFrame == UNCHANGED <<currentBranch, commitMessage, pre, prev, teammate, fan, featRun>>

\* how a step of git cleanup ends the process: on its own, with its exit
\* status; under git done, status 0 lets git done print its last line and
\* any other status is an exception nobody catches
CleanupEnds(code, e) ==
    IF run.parent = "done" /\ code # 0 THEN Finish(1, "CleanupFailed") ELSE Finish(code, e)

----------------------------------------------------------------------------
(* git cleanup *)

CleanupStartRun ==
    /\ pc = "idle"
    /\ currentBranch' = git.head
    /\ pre' = git
    /\ ops' = {}
    /\ run' = StartCleanup("none", config)
    /\ Goto("cl_fetch")
    /\ UNCHANGED <<git, commitMessage, prev, teammate, fan, featRun, config>>

\* execSync("git fetch --prune"), process.exit(1) when it throws
CL_Fetch ==
    /\ pc = "cl_fetch"
    /\ \E o \in GitFetchAllPrune(git) :
        /\ git' = o.g
        /\ IF o.ok THEN Goto("cl_list") ELSE CleanupEnds(1, "FetchFailed")
    /\ ops' = ops \cup {"fetch --prune"}
    /\ UNCHANGED <<config, run>>
    /\ RunFrame

\* branchOutput = git branch -vv; goneBranches = findGoneBranches(...);
\* if (goneBranches.length === 0) process.exit(0)
CL_List ==
    /\ pc = "cl_list"
    /\ LET gone == findGoneBranches(GitBranchVV(git, config)) IN
        /\ run' = [run EXCEPT !.goneBranches = gone, !.queue = gone]
        /\ IF gone = <<>> THEN CleanupEnds(0, "NothingToClean") ELSE Goto("cl_delete")
    /\ ops' = ops \cup {"branch -vv"}
    /\ UNCHANGED <<git, config>>
    /\ RunFrame

\* one turn of branches.forEach: git branch -D, a failure only reported;
\* after the last one "Cleanup complete!"
CL_Delete ==
    /\ pc = "cl_delete"
    /\ IF run.queue = <<>>
       THEN /\ CleanupEnds(0, "none")
            /\ UNCHANGED <<git, config, run, ops>>
       ELSE /\ \E o \in GitBranchDelete(git, Head(run.queue)) :
                /\ git' = o.g
                /\ config' = IF o.ok THEN DropBranchConfig(config, Head(run.queue)) ELSE config
            /\ run' = [run EXCEPT !.queue = Tail(run.queue)]
            /\ ops' = ops \cup {"branch -D"}
            /\ Goto("cl_delete")
    /\ RunFrame

Cleanup == CL_Fetch \/ CL_List \/ CL_Delete

----------------------------------------------------------------------------
(* git done *)

\* the guard with master among the protected names
isProtectedBranchWithMaster(branch) == branch \in {"main", "master", "develop"}

\* protectedBranches.includes(branch)
isProtectedBranch(branch) == branch \in {"main", "develop"}

\* resolveTargetBaseBranch with the trunk first
resolveTargetBaseBranchTrunkFirst(g) ==
    IF branchExistsLocal(g, "main") \/ branchExistsOnRemote(g, "main")
    THEN "main" ELSE "develop"

\* resolveTargetBaseBranch()
resolveTargetBaseBranch(g) ==
    IF branchExistsLocal(g, "develop") \/ branchExistsOnRemote(g, "develop")
    THEN "develop" ELSE "main"

\* currentBranch = getCurrentBranch(); if (isProtectedBranch(currentBranch))
DoneStartRun ==
    /\ pc = "idle"
    /\ currentBranch' = git.head
    /\ pre' = git
    /\ ops' = {}
    /\ run' = [StartCleanup("done", config) EXCEPT !.cmd = "done"]
    /\ IF isProtectedBranch(git.head) THEN Finish(1, "Protected") ELSE Goto("dn_fetchAll")
    /\ UNCHANGED <<git, commitMessage, prev, teammate, fan, featRun, config>>

\* isBranchDeletedOnRemote: git fetch --all --prune, exit 1 when it throws
DN_FetchAll ==
    /\ pc = "dn_fetchAll"
    /\ \E o \in GitFetchAllPrune(git) :
        /\ git' = o.g
        /\ IF o.ok THEN Goto("dn_branchInfo") ELSE Finish(1, "CheckFailed")
    /\ ops' = ops \cup {"fetch --all --prune"}
    /\ UNCHANGED <<config, run>>
    /\ RunFrame

\* isBranchDeletedOnRemote: the line of git branch -vv that starts with *
\* and includes the branch name; branchInfo.includes("[") &&
\* branchInfo.includes("gone]")
DN_BranchInfo ==
    /\ pc = "dn_branchInfo"
    /\ LET lines == SelectSeq(GitBranchVV(git, config),
                              LAMBDA l : l.current /\ l.name = currentBranch) IN
        IF lines = <<>> THEN Finish(1, "NoTrackingInfo")
        ELSE IF lineIsGone(Head(lines)) THEN Goto("dn_resolve")
        ELSE Finish(1, "StillOnRemote")
    /\ ops' = ops \cup {"branch -vv"}
    /\ UNCHANGED <<git, config, run>>
    /\ RunFrame

\* targetBase = resolveTargetBaseBranch()
DN_Resolve ==
    /\ pc = "dn_resolve"
    /\ run' = [run EXCEPT !.targetBase = resolveTargetBaseBranch(git)]
    /\ Goto("dn_update")
    /\ UNCHANGED <<git, config, ops>>
    /\ RunFrame

\* updateBranch(targetBase): git fetch origin base:base, exit 1 when it throws
DN_Update ==
    /\ pc = "dn_update"
    /\ \E o \in GitFetchRefspec(git, run.targetBase) :
        /\ git' = o.g
        /\ IF o.ok THEN Goto("dn_checkout") ELSE Finish(1, "UpdateFailed")
    /\ ops' = ops \cup {"fetch base"}
    /\ UNCHANGED <<config, run>>
    /\ RunFrame

\* the cleanup started with the feature branch still checked out
DN_CheckoutSkipped ==
    /\ pc = "dn_checkout"
    /\ run' = [run EXCEPT !.cmd = "cleanup"]
    /\ Goto("cl_fetch")
    /\ ops' = ops \cup {"cleanup"}
    /\ UNCHANGED <<git, config>>
    /\ RunFrame

\* execSync(`git checkout ${targetBase}`), outside any try: git refuses
\* when local changes would be overwritten, and the exception ends the
\* process with status 1; then execSync("git cleanup")
DN_Checkout ==
    /\ pc = "dn_checkout"
    /\ \E o \in GitCheckout(git, run.targetBase) \cup (IF git.dirty THEN {Fail(git)} ELSE {}) :
        /\ git' = o.g
        /\ IF o.ok
           THEN /\ run' = [run EXCEPT !.cmd = "cleanup"]
                /\ Goto("cl_fetch")
                /\ ops' = ops \cup {"checkout", "cleanup"}
           ELSE /\ run' = run
                /\ Finish(1, "Uncaught")
                /\ ops' = ops \cup {"checkout"}
    /\ UNCHANGED config
    /\ RunFrame

Done == DN_FetchAll \/ DN_BranchInfo \/ DN_Resolve \/ DN_Update \/ DN_Checkout

----------------------------------------------------------------------------
(* Repositories git done and git cleanup can be started in *)

RunIdle(g, c) ==
    /\ git = g
    /\ pre = g
    /\ pc = "idle"
    /\ currentBranch = g.head
    /\ commitMessage = <<>>
    /\ exitCode = NoExit
    /\ err = "none"
    /\ ops = {}
    /\ prev = NoPrev
    /\ teammate = 0
    /\ fan = NoFan
    /\ featRun = NoFeat
    /\ config = c
    /\ run = NoRun

\* the commits of InitGraph with the subject of commit 2, the tip of the
\* feature branch
GraphWithSubject(sub) == [InitGraph EXCEPT ![2].msg = sub]

Subjects == {<<"i">>, GoneSubject}

\* the upstream of every branch that is on origin or tracked, and of the
\* feature branch as given
UpstreamsOf(rem, trk, featUp) ==
    [b \in Branches |->
        IF b = "feat/x" THEN featUp
        ELSE IF rem[b] # NoCommit \/ trk[b] # NoCommit THEN "origin" ELSE "none"]

\* A feature branch at commit 2, pushed with or without -u or never pushed,
\* still on origin or deleted there, the deletion already fetched or not;
\* a trunk named main or master; develop locally, on origin, on both or
\* nowhere; the base anywhere relative to origin's; any branch checked out.
InitDone ==
    \E h \in Branches, trunk \in {"main", "master"}, hasDev \in BOOLEAN,
       bl \in 0..InitCommits, br \in 0..InitCommits,
       featUp \in {"none", "origin"}, fr \in {NoCommit, 2}, pruned \in BOOLEAN,
       sub \in Subjects, dirty \in BOOLEAN :
        LET tl == IF hasDev THEN 1 ELSE bl
            tr == IF hasDev THEN 1 ELSE br
            dl == IF hasDev THEN bl ELSE NoCommit
            dr == IF hasDev THEN br ELSE NoCommit
            loc == Refs(IF trunk = "main" THEN tl ELSE NoCommit,
                        IF trunk = "master" THEN tl ELSE NoCommit, dl, 2)
            rem == Refs(IF trunk = "main" THEN tr ELSE NoCommit,
                        IF trunk = "master" THEN tr ELSE NoCommit, dr, fr)
            trk == [rem EXCEPT !["feat/x"] =
                        IF featUp = "none" THEN NoCommit
                        ELSE IF pruned THEN fr ELSE 2] IN
        /\ bl # NoCommit \/ br # NoCommit
        /\ loc[h] # NoCommit
        /\ (featUp = "none" => pruned)
        /\ RunIdle([commits |-> GraphWithSubject(sub), local |-> loc, remote |-> rem,
                    tracking |-> trk, head |-> h, index |-> NoIndex, dirty |-> dirty],
                   [PlainConfig EXCEPT !.upstream = UpstreamsOf(rem, trk, featUp)])

NextDone ==
    \/ DoneStartRun
    \/ Done
    \/ Cleanup

SpecDone == InitDone /\ [][NextDone]_vars

\* git cleanup on its own: main on both sides; feat/x at commit 2 and
\* develop, when there is one, at commit 3, each pushed with or without -u
\* or never pushed, still on origin or deleted there, the deletion already
\* fetched or not; either tip subject may quote the marker; any local
\* branch checked out.
InitCleanup ==
    \E h \in Branches, hasDev \in BOOLEAN,
       featUp \in {"none", "origin"}, fr \in {NoCommit, 2}, fpruned \in BOOLEAN,
       devUp \in {"none", "origin"}, dr \in {NoCommit, 3}, dpruned \in BOOLEAN,
       sub2 \in Subjects, sub3 \in Subjects :
        LET loc == Refs(1, NoCommit, IF hasDev THEN 3 ELSE NoCommit, 2)
            rem == Refs(1, NoCommit, IF hasDev THEN dr ELSE NoCommit, fr)
            trk == Refs(1, NoCommit,
                        IF ~hasDev \/ devUp = "none" THEN NoCommit
                        ELSE IF dpruned THEN dr ELSE 3,
                        IF featUp = "none" THEN NoCommit
                        ELSE IF fpruned THEN fr ELSE 2)
            ups == [b \in Branches |->
                        IF b = "main" THEN "origin"
                        ELSE IF b = "feat/x" THEN featUp
                        ELSE IF b = "develop" /\ hasDev THEN devUp
                        ELSE "none"] IN
        /\ loc[h] # NoCommit
        /\ (featUp = "none" => fpruned)
        /\ (devUp = "none" => dpruned)
        /\ (~hasDev => devUp = "none" /\ dr = NoCommit /\ sub3 = <<"i">>)
        /\ RunIdle([commits |-> [GraphWithSubject(sub2) EXCEPT ![3].msg = sub3],
                    local |-> loc, remote |-> rem, tracking |-> trk,
                    head |-> h, index |-> NoIndex, dirty |-> FALSE],
                   [PlainConfig EXCEPT !.upstream = ups])

NextCleanup == CleanupStartRun \/ Cleanup

SpecCleanup == InitCleanup /\ [][NextCleanup]_vars

----------------------------------------------------------------------------
(* Lifecycle Finalizer and Stale Branch Reclaimer claims *)

RunExited == pc = "exited"
RunStarted == pc # "idle"
StartBranch == pre.head
\* the branch's upstream is set and origin no longer has the branch, which
\* is what a fetch with prune turns into the annotation gone
UpstreamGone(b) == run.was.upstream[b] = "origin" /\ pre.remote[b] = NoCommit
UpstreamOnOrigin(b) == run.was.upstream[b] = "origin" /\ pre.remote[b] # NoCommit
DeletedLocally == {b \in Branches : pre.local[b] # NoCommit /\ git.local[b] = NoCommit}
HadDevelopAnywhere == pre.local["develop"] # NoCommit \/ pre.remote["develop"] # NoCommit

\* C21: git done checks out another branch or deletes a branch only when it
\* was started on a branch other than main and develop whose upstream is
\* gone once origin has been fetched with prune; started on main or
\* develop, or on a branch whose upstream is still on origin, it exits
\* non-zero with the same branch checked out and no local branch deleted.
C21_FinalizerGuards ==
    RunStarted =>
        /\ (git.head # StartBranch \/ DeletedLocally # {} \/ "checkout" \in ops) =>
              (StartBranch \notin {"main", "develop"} /\ UpstreamGone(StartBranch))
        /\ (RunExited /\ (StartBranch \in {"main", "develop"} \/ UpstreamOnOrigin(StartBranch))) =>
              /\ exitCode # 0
              /\ git.head = StartBranch
              /\ DeletedLocally = {}

DoneSucceeded == RunExited /\ exitCode = 0 /\ run.parent = "done"

\* C22: when git done exits 0 the branch checked out is develop if develop
\* existed locally or on origin when it started, whether or not a trunk
\* exists too, and a trunk branch only if develop existed on neither side.
C22_BaseResolution ==
    DoneSucceeded =>
        IF HadDevelopAnywhere THEN git.head = "develop"
        ELSE git.head \in {"main", "master"}

\* develop only on origin, main on both sides: the run ends on develop
C22_Witness ==
    /\ DoneSucceeded
    /\ git.head = "develop"
    /\ pre.local["develop"] = NoCommit
    /\ pre.local["main"] # NoCommit
    /\ pre.remote["main"] # NoCommit

\* the repository of the test with a master trunk: master on both sides,
\* neither main nor develop anywhere, the run started on feat/x whose
\* upstream is gone
MasterTrunkCase ==
    /\ pre.local["master"] # NoCommit /\ pre.remote["master"] # NoCommit
    /\ pre.local["main"] = NoCommit /\ pre.remote["main"] = NoCommit
    /\ ~HadDevelopAnywhere
    /\ StartBranch = "feat/x"
    /\ UpstreamGone("feat/x")

\* C23: with no develop anywhere and a trunk named master, git done started
\* on a feature branch whose upstream is gone exits 0 with master checked
\* out (origin being reachable for the first fetch).
C23_MasterTrunk ==
    (RunExited /\ run.parent = "done" /\ MasterTrunkCase /\ err # "CheckFailed") =>
        exitCode = 0 /\ git.head = "master"

ReclaimerRan == {"cleanup", "fetch --prune", "branch -D"} \cap ops # {}

\* C24: in a run of git done the Reclaimer runs only after the base was
\* checked out, and the base is checked out only after it was fetched into
\* its local ref; so at exit 0 the base is checked out and the branch the
\* run started on, its upstream being gone, no longer exists locally. When
\* the fetch of the base fails the run exits non-zero on the branch it
\* started on and with no local branch deleted.
C24_FinalizerOrder ==
    (RunStarted /\ run.parent = "done") =>
        /\ ReclaimerRan => "checkout" \in ops /\ git.head = run.targetBase
        /\ "checkout" \in ops =>
              /\ "fetch base" \in ops
              /\ git.local[run.targetBase] # NoCommit
              /\ git.local[run.targetBase] = git.remote[run.targetBase]
        /\ DoneSucceeded =>
              /\ git.head = run.targetBase
              /\ UpstreamGone(StartBranch) => git.local[StartBranch] = NoCommit
        /\ (RunExited /\ err = "UpdateFailed") =>
              /\ exitCode # 0
              /\ git.head = StartBranch
              /\ DeletedLocally = {}

\* a finished run that moved a stale local develop up to origin's, checked
\* it out and deleted the finalized branch
C24_Witness ==
    /\ DoneSucceeded
    /\ UpstreamGone(StartBranch)
    /\ git.head = "develop"
    /\ pre.local["develop"] # git.local["develop"]
    /\ DeletedLocally = {StartBranch}

CleanupFinished == RunExited /\ run.cmd = "cleanup" /\ run.parent = "none" /\ exitCode = 0
GoneLocals == {b \in Branches : pre.local[b] # NoCommit /\ UpstreamGone(b)}

\* C25: when git cleanup has finished, the local branches it deleted are
\* exactly the local branches whose upstream is annotated gone, whichever
\* branch is checked out; branches with an upstream still on origin or
\* with no upstream are all still there.
C25_ReclaimerExact ==
    CleanupFinished => DeletedLocally = GoneLocals

----------------------------------------------------------------------------
(* git cleanup as src/code/git-cleanup.ts runs it: the branches are listed
   first and the fetch is the first statement of deleteBranches *)

CleanupScanFirstStartRun ==
    /\ pc = "idle"
    /\ currentBranch' = git.head
    /\ pre' = git
    /\ ops' = {}
    /\ run' = StartCleanup("none", config)
    /\ Goto("cs_list")
    /\ UNCHANGED <<git, commitMessage, prev, teammate, fan, featRun, config>>

\* branchOutput = git branch -vv; goneBranches = findGoneBranches(...);
\* if (goneBranches.length === 0) process.exit(0)
CS_List ==
    /\ pc = "cs_list"
    /\ LET gone == findGoneBranches(GitBranchVV(git, config)) IN
        /\ run' = [run EXCEPT !.goneBranches = gone, !.queue = gone]
        /\ IF gone = <<>> THEN CleanupEnds(0, "NothingToClean") ELSE Goto("cs_fetch")
    /\ ops' = ops \cup {"branch -vv"}
    /\ UNCHANGED <<git, config>>
    /\ RunFrame

\* deleteBranches: git fetch --prune, process.exit(1) when it throws
CS_Fetch ==
    /\ pc = "cs_fetch"
    /\ \E o \in GitFetchAllPrune(git) :
        /\ git' = o.g
        /\ IF o.ok THEN Goto("cl_delete") ELSE CleanupEnds(1, "FetchFailed")
    /\ ops' = ops \cup {"fetch --prune"}
    /\ UNCHANGED <<config, run>>
    /\ RunFrame

NextCleanupScanFirst == CleanupScanFirstStartRun \/ CS_List \/ CS_Fetch \/ CL_Delete

SpecCleanupScanFirst == InitCleanup /\ [][NextCleanupScanFirst]_vars

\* origin lost the branch after this clone's last fetch: the upstream is
\* set and the remote-tracking ref is still there
GoneSinceLastFetch(b) ==
    /\ UpstreamGone(b)
    /\ pre.local[b] # NoCommit
    /\ pre.tracking[b] # NoCommit
Scanned == "branch -vv" \in ops
Fetched == "fetch --prune" \in ops

\* C35: in a run of git cleanup the fetch with prune has completed before
\* the branches are scanned, so when the run has finished a branch that
\* origin lost since the last fetch is deleted by this very run; a fetch
\* that fails ends the run non-zero with no branch deleted.
C35_FetchBeforeScan ==
    (RunStarted /\ run.cmd = "cleanup") =>
        /\ Scanned => Fetched
        /\ CleanupFinished =>
              \A b \in Branches : GoneSinceLastFetch(b) => b \in DeletedLocally
        /\ err = "FetchFailed" => (exitCode # 0 /\ DeletedLocally = {})

----------------------------------------------------------------------------
(* git wip and git acp: staging, hooks, remotes *)

\* git add .: the changes of the working tree become the staged tree; the
\* command can fail (a locked index)
GitAddAll(g) ==
    {Fail(g),
     Ok(IF g.dirty
        THEN [g EXCEPT !.index = [st |-> "staged",
                                  tree |-> g.commits[Tip(g)].tree \cup {NextId(g.commits)}],
                       !.dirty = FALSE]
        ELSE g)}

\* git commit -m message [--no-verify]: a pre-commit hook that fails stops
\* the commit unless hooks are skipped
GitCommitHooked(g, c, message, noVerify) ==
    IF c.hook /\ ~noVerify THEN {Fail(g)}
    ELSE GitCommit(g, [ok |-> TRUE, word |-> message])

\* git diff --cached --name-status prints nothing
DiffCachedEmpty(g) == g.index.st # "staged" \/ g.index.tree = g.commits[Tip(g)].tree

\* the order in which git remote prints remote names
RemoteOrder == <<"alpha", "origin", "zeta">>

IsRemote(c, r) == \E k \in 1..Len(c.remotes) : c.remotes[k] = r

\* execSync("git remote") split into lines: the configured remotes by name
GitRemote(c) == SelectSeq(RemoteOrder, LAMBDA r : IsRemote(c, r))

\* the remotes in the order they were added to .git/config
getDefaultRemoteAsConfigured(c) ==
    IF IsRemote(c, "origin") THEN "origin"
    ELSE IF c.remotes # <<>> THEN c.remotes[1]
    ELSE "none"

\* getDefaultRemote(): origin when listed, else remotes[0], else null
getDefaultRemote(c) ==
    LET remotes == GitRemote(c) IN
    IF \E k \in 1..Len(remotes) : remotes[k] = "origin" THEN "origin"
    ELSE IF remotes # <<>> THEN remotes[1]
    ELSE "none"

\* hasUpstream(): git rev-parse @{u} succeeds, which needs the upstream's
\* remote-tracking ref to exist
hasUpstream(g, c) == Annotation(g, c, g.head) = "present"

\* git push --force: the remote ref takes the local tip whatever it held
PushToForced(g, c, b, r, setUpstream) ==
    LET cu == IF setUpstream THEN [c EXCEPT !.upstream[b] = r] ELSE c IN
    IF r = "origin"
    THEN {[ok |-> TRUE, g |-> [g EXCEPT !.remote[b] = g.local[b], !.tracking[b] = g.local[b]],
           c |-> cu]}
    ELSE {[ok |-> TRUE, g |-> g, c |-> [cu EXCEPT !.elsewhere[b] = g.local[b]]]}

\* git push [-u] to remote r of branch b: [ok, g, c]; origin's refs are in
\* g, another remote's ref of the branch in c.elsewhere; a push that is not
\* a fast-forward of the remote ref is rejected
PushTo(g, c, b, r, setUpstream) ==
    LET cu == IF setUpstream THEN [c EXCEPT !.upstream[b] = r] ELSE c IN
    IF r = "origin"
    THEN {[ok |-> o.ok, g |-> o.g, c |-> IF o.ok THEN cu ELSE c] : o \in GitPush(g, b)}
    ELSE IF c.elsewhere[b] = NoCommit \/ Contains(g.commits, c.elsewhere[b], g.local[b])
         THEN {[ok |-> TRUE, g |-> g, c |-> [cu EXCEPT !.elsewhere[b] = g.local[b]]]}
         ELSE {[ok |-> FALSE, g |-> g, c |-> c]}

\* the default message of git wip and the line --skip ci appends
WipMessage == <<"wip">>
SkipCiLine == <<"\n", "[skip ci]">>

\* what the operator types at the prompt of git acp, or end of input
AcpLines ==
    {<<>>, <<"y">>, <<"Y">>, <<"n">>, <<"y", "e", "s">>, <<"Y", "E", "S">>,
     <<" ", "y", "e", "s", " ">>, <<"y", "e">>}
AcpStdin == {[eof |-> TRUE, line |-> <<>>]} \cup {[eof |-> FALSE, line |-> l] : l \in AcpLines}

\* /^y(es)?$/i.test(answer)
matchesYes(answer) ==
    /\ Len(answer) \in {1, 3}
    /\ answer[1] \in {"y", "Y"}
    /\ Len(answer) = 3 => answer[2] \in {"e", "E"} /\ answer[3] \in {"s", "S"}

\* the confirmation asked on every branch the way it is asked on main
confirmProceedStrict(branch, line) == Trim(line) = <<"y", "e", "s">>

\* confirmProceed(branch) once the operator has typed a line: TRUE resolves,
\* FALSE is process.exit(1)
confirmProceed(branch, line) ==
    LET answer == Trim(line) IN
    IF branch = "main" THEN answer = <<"y", "e", "s">>
    ELSE answer = <<>> \/ matchesYes(answer)

\* the locals and flags of one git wip or git acp
StartQuick(cmd, push, skipHooks, skipCi, yes, stdin, c) ==
    [cmd |-> cmd, parent |-> "none", push |-> push, skipHooks |-> skipHooks,
     skipCi |-> skipCi, yes |-> yes, stdin |-> stdin, remote |-> "none", was |-> c]

WipArgs == {<<>>, <<"a">>}
AcpArgs == {<<>>, <<" ">>, <<"a">>}

----------------------------------------------------------------------------
(* git wip *)

\* a git wip that stages on whatever branch it is started
WipFromAnywhere ==
    /\ pc = "idle"
    /\ \E m \in WipArgs, push \in BOOLEAN, skipHooks \in BOOLEAN, skipCi \in BOOLEAN :
        /\ commitMessage' = (IF m = <<>> THEN WipMessage ELSE m)
                                \o (IF skipCi THEN SkipCiLine ELSE <<>>)
        /\ run' = StartQuick("wip", push, skipHooks, skipCi, FALSE,
                             [eof |-> TRUE, line |-> <<>>], config)
    /\ currentBranch' = git.head
    /\ pre' = git
    /\ ops' = {}
    /\ Goto("qc_add")
    /\ UNCHANGED <<git, prev, teammate, fan, featRun, config>>

\* main(): getCurrentBranch, the protected-branch guard, the flags and the
\* commit message
WipStartRun ==
    /\ pc = "idle"
    /\ \E m \in WipArgs, push \in BOOLEAN, skipHooks \in BOOLEAN, skipCi \in BOOLEAN :
        /\ commitMessage' = (IF m = <<>> THEN WipMessage ELSE m)
                                \o (IF skipCi THEN SkipCiLine ELSE <<>>)
        /\ run' = StartQuick("wip", push, skipHooks, skipCi, FALSE,
                             [eof |-> TRUE, line |-> <<>>], config)
    /\ currentBranch' = git.head
    /\ pre' = git
    /\ ops' = {}
    /\ IF isProtectedBranch(git.head) THEN Finish(1, "Protected") ELSE Goto("qc_add")
    /\ UNCHANGED <<git, prev, teammate, fan, featRun, config>>

----------------------------------------------------------------------------
(* git acp *)

\* a git acp with the guard of git wip in front
AcpStartGuarded ==
    /\ pc = "idle"
    /\ \E m \in AcpArgs, yes \in BOOLEAN, stdin \in AcpStdin :
        /\ commitMessage' = Trim(m)
        /\ run' = StartQuick("acp", TRUE, FALSE, FALSE, yes, stdin, config)
        /\ IF isProtectedBranch(git.head) THEN Finish(1, "Protected")
           ELSE IF Trim(m) = <<>> THEN Finish(1, "MessageRequired")
           ELSE Goto("qc_add")
    /\ currentBranch' = git.head
    /\ pre' = git
    /\ ops' = {}
    /\ UNCHANGED <<git, prev, teammate, fan, featRun, config>>

\* main(): getCurrentBranch, the commit message joined and trimmed, exit 1
\* when it is empty
AcpStartRun ==
    /\ pc = "idle"
    /\ \E m \in AcpArgs, yes \in BOOLEAN, stdin \in AcpStdin :
        /\ commitMessage' = Trim(m)
        /\ run' = StartQuick("acp", TRUE, FALSE, FALSE, yes, stdin, config)
        /\ IF Trim(m) = <<>> THEN Finish(1, "MessageRequired") ELSE Goto("qc_add")
    /\ currentBranch' = git.head
    /\ pre' = git
    /\ ops' = {}
    /\ UNCHANGED <<git, prev, teammate, fan, featRun, config>>

\* a confirmation that puts the index and the working tree back when the
\* operator declines
AC_ConfirmRestoring ==
    /\ pc = "ac_confirm"
    /\ IF run.yes THEN Goto("qc_commit") /\ ops' = ops /\ git' = git
       ELSE /\ ops' = ops \cup {"prompt"}
            /\ IF run.stdin.eof THEN Finish(0, "NoAnswer") /\ git' = git
               ELSE IF confirmProceed(currentBranch, run.stdin.line)
                    THEN Goto("qc_commit") /\ git' = git
               ELSE /\ Finish(1, "Aborted")
                    /\ git' = [git EXCEPT !.index = pre.index, !.dirty = pre.dirty]
    /\ UNCHANGED <<config, run>>
    /\ RunFrame

\* await confirmProceed(branch): nothing is asked with --yes; a prompt that
\* is never answered leaves nothing pending and the process ends with 0
AC_Confirm ==
    /\ pc = "ac_confirm"
    /\ IF run.yes THEN Goto("qc_commit") /\ ops' = ops
       ELSE /\ ops' = ops \cup {"prompt"}
            /\ IF run.stdin.eof THEN Finish(0, "NoAnswer")
               ELSE IF confirmProceed(currentBranch, run.stdin.line) THEN Goto("qc_commit")
               ELSE Finish(1, "Aborted")
    /\ UNCHANGED <<git, config, run>>
    /\ RunFrame

----------------------------------------------------------------------------
(* The steps git wip and git acp share *)

\* a git add after which git wip asks as well
QC_AddThenAsk ==
    /\ pc = "qc_add"
    /\ \E o \in GitAddAll(git) :
        /\ git' = o.g
        /\ IF ~o.ok THEN Finish(1, "AddFailed") ELSE Goto("ac_confirm")
    /\ ops' = ops \cup {"add"}
    /\ UNCHANGED <<config, run>>
    /\ RunFrame

\* execSync("git add ."), exit 1 when it throws; git acp then shows the
\* status and asks, git wip commits
QC_Add ==
    /\ pc = "qc_add"
    /\ \E o \in GitAddAll(git) :
        /\ git' = o.g
        /\ IF ~o.ok THEN Finish(1, "AddFailed")
           ELSE IF run.cmd = "acp" THEN Goto("ac_confirm")
           ELSE Goto("qc_commit")
    /\ ops' = ops \cup {"add"}
    /\ UNCHANGED <<config, run>>
    /\ RunFrame

\* a commit whose failure is always reported as nothing to commit
QC_CommitForgiving ==
    /\ pc = "qc_commit"
    /\ \E o \in GitCommitHooked(git, config, commitMessage, run.skipHooks) :
        /\ git' = o.g
        /\ IF ~o.ok THEN Finish(0, "NothingToCommit")
           ELSE IF run.push THEN Goto("qc_push")
           ELSE Finish(0, "none")
    /\ ops' = ops \cup {"commit"}
    /\ UNCHANGED <<config, run>>
    /\ RunFrame

\* spawnSync("git", ["commit", ...]); on a non-zero status git diff
\* --cached decides between "Nothing to commit" (exit 0) and the failure
\* (exit with git's status); then the push unless --no-push
QC_Commit ==
    /\ pc = "qc_commit"
    /\ \E o \in GitCommitHooked(git, config, commitMessage, run.skipHooks) :
        /\ git' = o.g
        /\ IF ~o.ok
           THEN IF DiffCachedEmpty(git) THEN Finish(0, "NothingToCommit")
                ELSE Finish(1, "CommitFailed")
           ELSE IF run.push THEN Goto("qc_push")
           ELSE Finish(0, "none")
    /\ ops' = ops \cup {"commit"}
    /\ UNCHANGED <<config, run>>
    /\ RunFrame

\* hasUpstream() ? git push : git push -u <getDefaultRemote()> <branch>;
\* no remote skips the push; a push that throws is exit 1
QC_Push ==
    /\ pc = "qc_push"
    /\ IF hasUpstream(git, config)
       THEN \E o \in PushTo(git, config, currentBranch, config.upstream[currentBranch], FALSE) :
                /\ git' = o.g
                /\ config' = o.c
                /\ run' = [run EXCEPT !.remote = config.upstream[currentBranch]]
                /\ ops' = ops \cup {"push"}
                /\ IF o.ok THEN Finish(0, "none") ELSE Finish(1, "PushFailed")
       ELSE LET remote == getDefaultRemote(config) IN
            IF remote = "none"
            THEN /\ Finish(0, "PushSkipped")
                 /\ UNCHANGED <<git, config, run, ops>>
            ELSE \E o \in PushTo(git, config, currentBranch, remote, TRUE) :
                    /\ git' = o.g
                    /\ config' = o.c
                    /\ run' = [run EXCEPT !.remote = remote]
                    /\ ops' = ops \cup {"push -u"}
                    /\ IF o.ok THEN Finish(0, "none") ELSE Finish(1, "PushFailed")
    /\ RunFrame

Quick == QC_Add \/ AC_Confirm \/ QC_Commit \/ QC_Push

----------------------------------------------------------------------------
(* Repositories git wip and git acp can be started in *)

RemoteConfigs == {<<>>, <<"origin">>, <<"zeta", "alpha">>, <<"alpha", "origin">>}

\* All four branches exist locally, feat/x one commit past the others; any
\* of them checked out, with or without local changes and a failing
\* pre-commit hook; no remote, origin alone, or two remotes added in either
\* name order; the checked-out branch never pushed, pushed with -u and in
\* step, pushed with -u and since moved on by someone else, or pushed with
\* -u and deleted on the remote, the remote-tracking ref fetched since or
\* still where the last push left it.
InitQuick ==
    \E h \in Branches, rs \in RemoteConfigs, ur \in {"none", "alpha", "origin", "zeta"},
       rr \in {NoCommit, 1, 2, 3}, stale \in BOOLEAN, dirty \in BOOLEAN, hook \in BOOLEAN :
        LET loc == Refs(1, 1, 1, 2)
            none == [b \in Branches |-> NoCommit]
            c == [remotes |-> rs,
                  upstream |-> [b \in Branches |-> IF b = h THEN ur ELSE "none"],
                  elsewhere |-> IF ur \in {"alpha", "zeta"} THEN [none EXCEPT ![h] = rr] ELSE none,
                  hook |-> hook] IN
        /\ ur # "none" => IsRemote(c, ur)
        /\ rr \in {NoCommit, loc[h], 3}
        /\ (rr # NoCommit /\ ur \notin {"alpha", "zeta"}) => IsRemote(c, "origin")
        /\ (ur # "origin") => ~stale
        /\ RunIdle([commits |-> InitGraph, local |-> loc,
                    remote |-> IF ur \in {"alpha", "zeta"} THEN none ELSE [none EXCEPT ![h] = rr],
                    tracking |-> IF ur = "origin" /\ ~stale THEN [none EXCEPT ![h] = rr]
                                 ELSE IF ur = "origin" THEN [none EXCEPT ![h] = loc[h]]
                                 ELSE none,
                    head |-> h, index |-> NoIndex, dirty |-> dirty], c)

NextQuick == WipStartRun \/ AcpStartRun \/ Quick

SpecQuick == InitQuick /\ [][NextQuick]_vars

----------------------------------------------------------------------------
(* Quick-Commit claims *)

WipRun == RunStarted /\ run.cmd = "wip"
AcpRun == RunStarted /\ run.cmd = "acp"
Pushes == {"push", "push -u"}
NothingChanged == git = pre /\ config = run.was
TipMoved == git.local[StartBranch] # pre.local[StartBranch]
NothingPushed ==
    /\ ops \cap Pushes = {}
    /\ git.remote = pre.remote
    /\ config.elsewhere = run.was.elsewhere

\* C26: git wip started on main or develop exits non-zero having staged,
\* committed and pushed nothing; started on any other branch it goes on to
\* git add and, once that has succeeded, to git commit.
C26_WipGuard ==
    WipRun =>
        IF StartBranch \in {"main", "develop"}
        THEN RunExited /\ exitCode # 0 /\ ops = {} /\ NothingChanged
        ELSE /\ pc = "qc_add" \/ "add" \in ops
             /\ (pc # "qc_add" /\ err # "AddFailed") => pc = "qc_commit" \/ "commit" \in ops

\* git wip refused on develop with changes waiting in the working tree
C26_Witness ==
    /\ WipRun /\ RunExited
    /\ StartBranch = "develop"
    /\ pre.dirty
    /\ exitCode = 1

\* C27: in git wip and git acp, a commit step reached with nothing staged
\* ends the command with exit 0 and the nothing-to-commit outcome, the
\* branch tip where it was and nothing pushed; a commit step that fails
\* with changes staged ends it non-zero, also with nothing pushed.
C27_NothingToCommit ==
    ((WipRun \/ AcpRun) /\ RunExited /\ "commit" \in ops) =>
        IF ~pre.dirty
        THEN exitCode = 0 /\ err = "NothingToCommit" /\ ~TipMoved /\ NothingPushed
        ELSE ~TipMoved => exitCode # 0 /\ NothingPushed

\* git acp, confirmed, with a clean working tree: the no-op exit
C27_Witness ==
    /\ AcpRun /\ RunExited
    /\ "commit" \in ops
    /\ ~pre.dirty
    /\ exitCode = 0

\* a finished run that committed and was not told to skip the push
CommittedToPush == (WipRun \/ AcpRun) /\ RunExited /\ TipMoved /\ run.push
\* the branch had an upstream that git could resolve when the run started
HadUpstream == Annotation(pre, run.was, StartBranch) = "present"
PushedTo(r) ==
    IF r = "origin" THEN git.remote[StartBranch] = git.local[StartBranch]
    ELSE config.elsewhere[StartBranch] = git.local[StartBranch]
PushOutcome(r) == IF PushedTo(r) THEN exitCode = 0 ELSE exitCode # 0
WasRemote(r) == \E k \in 1..Len(run.was.remotes) : run.was.remotes[k] = r
NameRank(r) == CHOOSE k \in 1..Len(RemoteOrder) : RemoteOrder[k] = r
\* origin if there is one, else the remote that was configured first
FirstConfigured ==
    IF WasRemote("origin") THEN "origin"
    ELSE IF run.was.remotes # <<>> THEN run.was.remotes[1]
    ELSE "none"
\* origin if there is one, else the remote whose name sorts first
FirstByName ==
    IF WasRemote("origin") THEN "origin"
    ELSE IF run.was.remotes # <<>>
         THEN CHOOSE r \in {"alpha", "zeta"} :
                WasRemote(r) /\ \A q \in {"alpha", "zeta"} : WasRemote(q) => NameRank(r) <= NameRank(q)
    ELSE "none"

PushProtocol(chosen) ==
    IF HadUpstream
    THEN /\ "push" \in ops /\ "push -u" \notin ops
         /\ config.upstream = run.was.upstream
         /\ PushOutcome(run.was.upstream[StartBranch])
    ELSE IF chosen = "none"
    THEN exitCode = 0 /\ NothingPushed
    ELSE /\ "push -u" \in ops /\ "push" \notin ops
         /\ PushOutcome(chosen)
         /\ exitCode = 0 => config.upstream[StartBranch] = chosen

\* C28: after a successful commit with the push not disabled, a branch
\* with an upstream is pushed with a plain git push; otherwise the push
\* goes, setting the upstream, to origin if there is a remote of that name
\* and else to the first configured remote; with no remote nothing is
\* pushed and the exit status is 0; a push that fails exits non-zero.
C28_PushProtocol == CommittedToPush => PushProtocol(FirstConfigured)

\* C28 as amended: the same with the remote, when there is no origin,
\* being the first that git remote lists, which is the first in name order.
C28_PushProtocolByName == CommittedToPush => PushProtocol(FirstByName)

\* remotes zeta then alpha were added, no origin: the first push went to
\* alpha and the branch now tracks it
C28_Witness ==
    /\ CommittedToPush
    /\ run.was.remotes = <<"zeta", "alpha">>
    /\ ~HadUpstream
    /\ exitCode = 0
    /\ config.upstream[StartBranch] = "alpha"
    /\ PushedTo("alpha")

\* the operator has answered the prompt of a git acp started without --yes
Answered == AcpRun /\ ~run.yes /\ "prompt" \in ops /\ ~run.stdin.eof
Typed == Trim(run.stdin.line)
TypedYesToken == Typed = <<"y", "e", "s">>
TypedDefaultYes ==
    \/ Typed = <<>>
    \/ Typed \in {<<"y">>, <<"Y">>}
    \/ Typed \in {<<a, b, c>> : a \in {"y", "Y"}, b \in {"e", "E"}, c \in {"s", "S"}}
ProceedsToCommit == pc = "qc_commit" \/ "commit" \in ops
DeclinedCleanly == RunExited /\ exitCode # 0 /\ ~TipMoved /\ NothingPushed /\ "commit" \notin ops

Confirmation(strictBranches) ==
    /\ Answered =>
          IF StartBranch \in strictBranches
          THEN IF TypedYesToken THEN ProceedsToCommit ELSE DeclinedCleanly
          ELSE IF TypedDefaultYes THEN ProceedsToCommit ELSE DeclinedCleanly
    /\ (AcpRun /\ run.yes) => "prompt" \notin ops

\* C29: without --yes, git acp on the Trunk branch goes on to commit only
\* when the operator types exactly yes, and any other answer exits
\* non-zero with no commit and no push; on every other branch an empty
\* answer or y/yes in any case goes on and any other answer exits non-zero
\* with no commit; with --yes nothing is asked on any branch.
C29_Confirmation == Confirmation({"main", "master"})

\* C29 as amended: the exact yes is required on main only; master is one
\* of the other branches.
C29_ConfirmationOnMain == Confirmation({"main"})

\* on main the operator typed yes and the commit was made
C29_Witness ==
    /\ Answered
    /\ StartBranch = "main"
    /\ TypedYesToken
    /\ TipMoved

RejectedAtEntry == RunExited /\ exitCode # 0 /\ ops = {} /\ NothingChanged
Confirmed == run.yes \/ (~run.stdin.eof /\ TypedDefaultYes)

\* C30: git acp started on develop is rejected the way git wip is there:
\* it exits non-zero and creates no commit and pushes nothing.
C30_AcpGuard ==
    (AcpRun /\ StartBranch = "develop") => RejectedAtEntry

\* C30 as amended: git wip is rejected on develop and git acp is not; given
\* a message it stages, asks as on any branch other than main, and once
\* confirmed commits the staged changes on develop.
C30_AcpOnDevelop ==
    /\ (WipRun /\ StartBranch = "develop") => RejectedAtEntry
    /\ (AcpRun /\ StartBranch = "develop" /\ commitMessage # <<>>) =>
          /\ pc = "qc_add" \/ "add" \in ops
          /\ (RunExited /\ Confirmed /\ pre.dirty /\ ~run.was.hook /\ err # "AddFailed")
                => TipMoved

\* git acp on develop, confirmed with an empty answer, committed and
\* pushed develop to origin
C30_Witness ==
    /\ AcpRun /\ RunExited
    /\ StartBranch = "develop"
    /\ ~run.yes /\ ~run.stdin.eof /\ Typed = <<>>
    /\ TipMoved
    /\ exitCode = 0
    /\ git.remote["develop"] = git.local["develop"]

\* C36: git acp first checks the message (an empty one exits non-zero with
\* nothing staged), then stages everything, then asks, then commits, then
\* pushes; so when the operator declines, no commit and no push has
\* happened, and the changes the run staged are still staged.
C36_StepOrder ==
    AcpRun =>
        /\ commitMessage = <<>> <=> err = "MessageRequired"
        /\ err = "MessageRequired" =>
              (RunExited /\ exitCode # 0 /\ ops = {} /\ NothingChanged)
        /\ err = "AddFailed" => ops = {"add"}
        /\ "prompt" \in ops => "add" \in ops
        /\ "commit" \in ops => ("add" \in ops /\ (run.yes \/ "prompt" \in ops))
        /\ ops \cap Pushes # {} => ("commit" \in ops /\ TipMoved)
        /\ err = "Aborted" =>
              /\ DeclinedCleanly
              /\ git.commits = pre.commits
              /\ pre.dirty => (git.index.st = "staged" /\ git.index # pre.index /\ ~git.dirty)

\* on main with changes in the working tree, an answer other than yes: the
\* run has ended non-zero and the changes are staged
C36_Witness ==
    /\ AcpRun
    /\ err = "Aborted"
    /\ StartBranch = "main"
    /\ pre.dirty
    /\ git.index.st = "staged"
    /\ ops = {"add", "prompt"}

----------------------------------------------------------------------------
(* Every command's entry, on every branch *)

\* All four branches exist locally and on origin, develop and feat/x each
\* one commit past main and master; any of them checked out, the working
\* tree clean or not.
InitGuards ==
    \E h \in Branches, dirty \in BOOLEAN :
        RunIdle([commits |-> InitGraph, local |-> Refs(1, 1, 3, 2), remote |-> Refs(1, 1, 3, 2),
                 tracking |-> Refs(1, 1, 3, 2), head |-> h, index |-> NoIndex, dirty |-> dirty],
                [PlainConfig EXCEPT !.upstream = [b \in Branches |-> "origin"]])

\* the first step of each command, and for git acp the two steps up to the
\* answer to its prompt
NextGuards ==
    \/ PromoteFromDevelop \/ PromoteFromFeature \/ PromoteFromMain
    \/ PropagateFromMain \/ PropagateFromDevelop \/ PropagateFromOther
    \/ FeatStartRun
    \/ DoneStartRun
    \/ WipStartRun
    \/ AcpStartRun \/ QC_Add \/ AC_Confirm

SpecGuards == InitGuards /\ [][NextGuards]_vars

----------------------------------------------------------------------------
(* Classification claims *)

\* which command the run belongs to
Engine ==
    IF run # NoRun THEN run.cmd
    ELSE IF fan # NoFan THEN "propagate"
    ELSE IF pc = "gf_fetch" \/ err = "NotAllowedBase" THEN "feat"
    ELSE "promote"

EntryRejected == pc = "exited" /\ exitCode # 0 /\ ops = {} /\ git = pre

\* what the commands do when started on main
TrunkDecision ==
    CASE Engine \in {"promote", "done", "wip"} -> EntryRejected
      [] Engine \in {"propagate", "feat"} -> ~EntryRejected
      [] OTHER ->
            /\ commitMessage # <<>> => ~EntryRejected
            /\ Answered => IF TypedYesToken THEN ProceedsToCommit ELSE DeclinedCleanly

\* what the commands do when started on a feature branch
FeatureDecision ==
    CASE Engine \in {"promote", "done", "wip"} -> ~EntryRejected
      [] Engine \in {"propagate", "feat"} -> EntryRejected
      [] OTHER ->
            /\ commitMessage # <<>> => ~EntryRejected
            /\ Answered => IF TypedDefaultYes THEN ProceedsToCommit ELSE DeclinedCleanly

\* C31: the entry guard of promote, propagate, feat, done, wip and acp
\* gives master the decision, and git acp the confirmation, it gives main.
C31_UniformTrunk ==
    (RunStarted /\ StartBranch \in {"main", "master"}) => TrunkDecision

\* C31 as amended: only the name main is Trunk to the entry guards; master
\* gets from every command the decision and the confirmation a feature
\* branch gets.
C31_MasterAsFeature ==
    /\ (RunStarted /\ StartBranch = "main") => TrunkDecision
    /\ (RunStarted /\ StartBranch \in {"master", "feat/x"}) => FeatureDecision

\* git wip accepted on master: it has run git add
C31_Witness ==
    /\ WipRun
    /\ StartBranch = "master"
    /\ "add" \in ops

----------------------------------------------------------------------------
(* git release-notes *)

Digits == <<"0", "1", "2", "3", "4", "5", "6", "7", "8", "9">>

\* parseInt of a string of decimal digits
RECURSIVE parseInt(_)
parseInt(ds) ==
    IF ds = <<>> THEN 0
    ELSE 10 * parseInt(SubSeq(ds, 1, Len(ds) - 1))
            + (CHOOSE d \in 0..9 : Digits[d + 1] = ds[Len(ds)])

\* the digit strings tags are made of here
Numerals == {<<"0">>, <<"9">>, <<"0", "2">>}

\* a tag name: v and three numerals, or some other name
VersionTags == {[v |-> TRUE, parts |-> <<x, y, z>>] : x \in Numerals, y \in Numerals, z \in Numerals}
OtherTag == [v |-> FALSE, parts |-> <<>>]

\* tagRegex.test(tag): /^v\d+\.\d+\.\d+$/
tagRegex(tag) == tag.v /\ Len(tag.parts) = 3 /\ \A k \in 1..3 : tag.parts[k] # <<>>

\* what git for-each-ref refs/tags --sort=-creatordate prints
TagLists == {<<>>, <<OtherTag>>} \cup {<<t>> : t \in VersionTags} \cup {<<OtherTag, t>> : t \in VersionTags}

\* parseVersion(version)
parseVersion(tag) ==
    [major |-> parseInt(tag.parts[1]), minor |-> parseInt(tag.parts[2]),
     patch |-> parseInt(tag.parts[3])]

\* commit subjects as git log prints them, in the symbols the three
\* regular expressions tell apart: a type word, a scope in parentheses,
\* the exclamation mark, the colon, anything else
ReleaseTypes == {"feat", "fix", "refactor", "style", "test", "docs", "chore", "perf"}
LogSubjects ==
    {<<"feat", ":", "x">>, <<"feat", "!", ":", "x">>, <<"feat", "(s)", ":", "x">>,
     <<"fix", ":", "x">>, <<"docs", "(s)", "!", ":", "x">>, <<"docs", ":", "x">>,
     <<"ci", ":", "x">>, <<"x">>, <<"feat", "x">>, <<" ", "feat", "!", ":", "x">>}
Logs == UNION {[1..n -> LogSubjects] : n \in 0..MaxLog}

\* message.match(/^(types)(\([^)]+\))?!:/) with bang, /^(types)(\([^)]+\))?:/ without
MatchesPrefix(message, types, bang) ==
    LET k == IF Len(message) >= 2 /\ message[2] = "(s)" THEN 3 ELSE 2 IN
    /\ message # <<>> /\ message[1] \in types
    /\ IF bang THEN Len(message) > k /\ message[k] = "!" /\ message[k + 1] = ":"
       ELSE Len(message) >= k /\ message[k] = ":"

\* the flags one commit sets in the loop of determineVersionBump
BumpOf(message) ==
    IF MatchesPrefix(message, ReleaseTypes, TRUE) THEN "major"
    ELSE IF MatchesPrefix(message, {"feat"}, FALSE) THEN "minor"
    ELSE IF MatchesPrefix(message, ReleaseTypes \ {"feat"}, FALSE) THEN "patch"
    ELSE "none"

\* determineVersionBump(commits)
determineVersionBump(commits) ==
    [major |-> \E k \in 1..Len(commits) : BumpOf(commits[k]) = "major",
     minor |-> \E k \in 1..Len(commits) : BumpOf(commits[k]) = "minor",
     patch |-> \E k \in 1..Len(commits) : BumpOf(commits[k]) = "patch"]

\* the computation trying the minor bump before the major one
calculateNewVersionBaseMinorFirst(currentVersion, changes) ==
    IF changes.minor
    THEN [major |-> currentVersion.major, minor |-> currentVersion.minor + 1, patch |-> 0]
    ELSE IF changes.major
    THEN [major |-> currentVersion.major + 1, minor |-> 0, patch |-> 0]
    ELSE IF changes.patch
    THEN [currentVersion EXCEPT !.patch = @ + 1]
    ELSE currentVersion

\* calculateNewVersionBase(currentVersion, changes)
calculateNewVersionBase(currentVersion, changes) ==
    IF changes.major
    THEN [major |-> currentVersion.major + 1, minor |-> 0, patch |-> 0]
    ELSE IF changes.minor
    THEN [major |-> currentVersion.major, minor |-> currentVersion.minor + 1, patch |-> 0]
    ELSE IF changes.patch
    THEN [currentVersion EXCEPT !.patch = @ + 1]
    ELSE currentVersion

NoVersion == [major |-> -1, minor |-> -1, patch |-> -1]

\* the locals of one git release-notes: what the two git listings print,
\* the tag chosen, what is reported
StartRelease(tags, log) ==
    [cmd |-> "release-notes", parent |-> "none", tags |-> tags, log |-> log,
     latestTag |-> OtherTag, report |-> "none", newVersion |-> NoVersion]

\* execSync("git fetch --all") at the top of the script: when it throws
\* nothing catches it
ReleaseStartRun ==
    /\ pc = "idle"
    /\ currentBranch' = git.head
    /\ pre' = git
    /\ \E tags \in TagLists, log \in Logs : run' = StartRelease(tags, log)
    /\ ops' = {"fetch --all"}
    /\ \E o \in {Ok(git), Fail(git)} :
          IF o.ok THEN Goto("rn_branch") ELSE Finish(1, "Uncaught")
    /\ UNCHANGED <<git, commitMessage, prev, teammate, fan, featRun, config>>

\* checkBranch(targetBranch)
RN_CheckBranch ==
    /\ pc = "rn_branch"
    /\ IF git.head # "main" THEN Finish(1, "NotOnMain") ELSE Goto("rn_tag")
    /\ UNCHANGED <<git, config, run, ops>>
    /\ RunFrame

\* getLatestTag(tagRegex): the first listed tag that matches, exit 1 when
\* none does
RN_LatestTag ==
    /\ pc = "rn_tag"
    /\ LET tags == SelectSeq(run.tags, tagRegex) IN
        IF tags = <<>>
        THEN Finish(1, "NoTag") /\ run' = run
        ELSE Goto("rn_report") /\ run' = [run EXCEPT !.latestTag = tags[1]]
    /\ ops' = ops \cup {"for-each-ref"}
    /\ UNCHANGED <<git, config>>
    /\ RunFrame

\* getCommitsSinceTag, then the version report or the no-new-commits
\* line; the script ends
RN_Report ==
    /\ pc = "rn_report"
    /\ run' = IF Len(run.log) > 0
              THEN [run EXCEPT !.report = "new version",
                               !.newVersion = calculateNewVersionBase(parseVersion(run.latestTag),
                                                                      determineVersionBump(run.log))]
              ELSE [run EXCEPT !.report = "no new commits"]
    /\ ops' = ops \cup {"log"}
    /\ Finish(0, "none")
    /\ UNCHANGED <<git, config>>
    /\ RunFrame

\* main with origin, or develop, checked out
InitRelease ==
    \E h \in {"main", "develop"} :
        RunIdle([commits |-> InitGraph, local |-> Refs(1, NoCommit, 1, NoCommit),
                 remote |-> Refs(1, NoCommit, NoCommit, NoCommit),
                 tracking |-> Refs(1, NoCommit, NoCommit, NoCommit),
                 head |-> h, index |-> NoIndex, dirty |-> FALSE],
                [PlainConfig EXCEPT !.upstream["main"] = "origin"])

NextRelease == ReleaseStartRun \/ RN_CheckBranch \/ RN_LatestTag \/ RN_Report

SpecRelease == InitRelease /\ [][NextRelease]_vars

----------------------------------------------------------------------------
(* Release claims *)

Reported == RunExited /\ run.cmd = "release-notes" /\ run.report # "none"
\* the number a numeral denotes
Denotes(ds) ==
    IF Len(ds) = 1 THEN CHOOSE d \in 0..9 : Digits[d + 1] = ds[1]
    ELSE 10 * (CHOOSE d \in 0..9 : Digits[d + 1] = ds[1]) + (CHOOSE d \in 0..9 : Digits[d + 1] = ds[2])
TagX == Denotes(run.latestTag.parts[1])
TagY == Denotes(run.latestTag.parts[2])
TagZ == Denotes(run.latestTag.parts[3])
\* the subject starts with a type the release computation recognizes, an
\* optional scope, and then "!:" or ":"
AfterType(m) == IF Len(m) >= 2 /\ m[2] = "(s)" THEN SubSeq(m, 3, Len(m)) ELSE Tail(m)
Typed32(m, types) == m # <<>> /\ m[1] \in types
Breaking(m) ==
    Typed32(m, ReleaseTypes) /\ Len(AfterType(m)) >= 2 /\ SubSeq(AfterType(m), 1, 2) = <<"!", ":">>
Prefixed(m, types) ==
    Typed32(m, types) /\ Len(AfterType(m)) >= 1 /\ Head(AfterType(m)) = ":"
Some(P(_)) == \E k \in 1..Len(run.log) : P(run.log[k])
IsFeat(m) == Prefixed(m, {"feat"})
IsOtherType(m) == Prefixed(m, ReleaseTypes \ {"feat"})

----------------------------------------------------------------------------
(* Every command, one invocation after another, in one family of clones *)

\* main at the root commit on both sides; develop level with, ahead of,
\* behind or diverged from origin's, or gone from origin; feat/x pushed or
\* gone from origin; perhaps a pushed master; upstreams set for every
\* local branch or for none; a remote-tracking ref outlives origin's
\* branch until the next fetch with prune
InitAll ==
    \E h \in Branches, dirty \in BOOLEAN, dl \in {1, 3}, dr \in 0..InitCommits,
       fr \in {NoCommit, 2}, hasMaster \in BOOLEAN, up \in BOOLEAN :
        LET ms == IF hasMaster THEN 2 ELSE NoCommit
            loc == Refs(1, ms, dl, 2)
            rem == Refs(1, ms, dr, fr)
            trk == [b \in Branches |->
                        IF rem[b] # NoCommit THEN rem[b]
                        ELSE IF up THEN loc[b] ELSE NoCommit]
            ups == [b \in Branches |->
                        IF up /\ loc[b] # NoCommit THEN "origin" ELSE "none"] IN
        /\ loc[h] # NoCommit
        /\ git = [commits |-> InitGraph, local |-> loc, remote |-> rem, tracking |-> trk,
                  head |-> h, index |-> NoIndex, dirty |-> dirty]
        /\ pre = git
        /\ pc = "idle"
        /\ currentBranch = h
        /\ commitMessage = <<>>
        /\ exitCode = NoExit
        /\ err = "none"
        /\ ops = {}
        /\ prev = NoPrev
        /\ teammate = 0
        /\ fan = NoFan
        /\ featRun = StartFeat(up /\ rem[h] # NoCommit, FALSE, FALSE)
        /\ config = [PlainConfig EXCEPT !.upstream = ups]
        /\ run = NoRun

\* the process has ended and the next command is typed in the same clone:
\* nothing of the run is left but the repository and its configuration;
\* the history is kept within InitCommits commits, so a run that
\* committed is the last one
NextInvocation ==
    /\ pc = "exited"
    /\ Cardinality(DOMAIN git.commits) <= InitCommits
    /\ pc' = "idle"
    /\ currentBranch' = git.head
    /\ pre' = git
    /\ commitMessage' = <<>>
    /\ exitCode' = NoExit
    /\ err' = "none"
    /\ ops' = {}
    /\ fan' = NoFan
    /\ featRun' = StartFeat(config.upstream[git.head] = "origin" /\ git.remote[git.head] # NoCommit,
                            FALSE, FALSE)
    /\ run' = NoRun
    /\ UNCHANGED <<git, prev, teammate, config>>

NextAll ==
    \/ PromoteFromDevelop \/ PromoteFromFeature \/ PromoteFromMain
    \/ PromoteFeature \/ PromoteDevelop
    \/ PropagateFromMain \/ PropagateFromDevelop \/ PropagateFromOther
    \/ PropagateMainToDevelop \/ PropagateFanOut
    \/ FeatStartRun \/ GF_Fetch \/ GF_AheadBehind \/ GF_Prompt \/ GF_Pull
    \/ GF_Parse \/ GF_ExistsLocal \/ GF_ExistsRemote \/ GF_Create
    \/ DoneStartRun \/ Done
    \/ CleanupStartRun \/ Cleanup
    \/ WipStartRun \/ AcpStartRun \/ Quick
    \/ NextInvocation

SpecAll == InitAll /\ [][NextAll]_vars

----------------------------------------------------------------------------
(* What the commands may delete and where origin's branches may move *)

\* origin's branch b after a step: where it was, or new, or at a commit
\* that contains the one it was at
MovedForward(b) ==
    \/ git'.remote[b] = git.remote[b]
    \/ git.remote[b] = NoCommit
    \/ /\ git'.remote[b] # NoCommit
       /\ Contains(git'.commits, git.remote[b], git'.remote[b])
ProtectedForwardStep == MovedForward("main") /\ MovedForward("develop")

\* C38: in every step of git promote, propagate, feat, done, cleanup, wip
\* and acp, origin's main and origin's develop stay where they are or move
\* to a descendant of their tip; no step rewinds, rewrites or deletes
\* them.
C38_RemoteForward == [][ProtectedForwardStep]_vars

\* a promotion of develop that moved origin's main forward
C38_Witness ==
    /\ Exited
    /\ exitCode = 0
    /\ pre.head = "develop"
    /\ "push" \in ops
    /\ pre.remote["main"] # NoCommit
    /\ git.remote["main"] # pre.remote["main"]
    /\ Contains(git.commits, pre.remote["main"], git.remote["main"])

\* the branch the promotion was started on is gone, here or on origin
FeatureGoneLocally == pre.local[currentBranch] # NoCommit /\ git.local[currentBranch] = NoCommit
FeatureGoneOnOrigin == pre.remote[currentBranch] # NoCommit /\ git.remote[currentBranch] = NoCommit
SquashPushed ==
    /\ {"commit", "push"} \subseteq ops
    /\ git.local["develop"] \notin DOMAIN pre.commits
    /\ git.commits[git.local["develop"]].msg = ShellMessage(commitMessage).word
    /\ Contains(git.commits, git.local["develop"], git.remote["develop"])

\* C37: at every state of a git promote started on a feature branch, the
\* feature branch is gone locally or on origin only when the squash
\* commit has been made on develop and develop has been pushed to origin
\* with it; a run that ends non-zero (the commit or the push failed, or
\* any step before them) ends with the feature branch where it was, here
\* and on origin.
C37_DeleteAfterPush ==
    (Running /\ FromFeature) =>
        /\ (FeatureGoneLocally \/ FeatureGoneOnOrigin) => SquashPushed
        /\ (Exited /\ exitCode # 0) =>
              /\ git.local[currentBranch] = pre.local[currentBranch]
              /\ git.remote[currentBranch] = pre.remote[currentBranch]

\* a teammate's push between the pull and the push of develop: the squash
\* commit is made, the push is refused, the pushed feature branch is
\* still there on both sides
C37_Witness ==
    /\ Exited
    /\ FromFeature
    /\ exitCode # 0
    /\ ops = {"fetch", "checkout", "pull", "merge --squash", "commit", "push"}
    /\ git.local["develop"] \notin DOMAIN pre.commits
    /\ pre.remote[currentBranch] # NoCommit
    /\ git.remote[currentBranch] = pre.remote[currentBranch]
    /\ git.local[currentBranch] = pre.local[currentBranch]

Protected == {"main", "master", "develop"}
GoneLocally(b) == pre.local[b] # NoCommit /\ git.local[b] = NoCommit
GoneOnOrigin(b) == pre.remote[b] # NoCommit /\ git.remote[b] = NoCommit
\* the run is a squash promotion that has pushed its commit
SquashPromotion == run = NoRun /\ fan = NoFan /\ SquashPushed
\* the reclaimer, on its own or under git done, listed b as gone
ListedGone(b) ==
    /\ run # NoRun
    /\ run.cmd = "cleanup"
    /\ \E k \in DOMAIN run.goneBranches : run.goneBranches[k] = b

\* C39 as stated: at no state of any command is main, master or develop
\* gone locally or gone on origin.
C39_ProtectedKept ==
    \A b \in Protected : ~GoneLocally(b) /\ ~GoneOnOrigin(b)

\* C39: no command deletes main or develop on origin or the checked-out
\* branch locally; a branch is deleted on origin only by a squash
\* promotion started on it, after its push of develop, and the code takes
\* every branch but main and develop for a feature branch, master
\* included; a branch is deleted locally only by that promotion or by the
\* reclaimer, which deletes the branches its scan listed as gone,
\* whatever their role (develop, in a clone whose develop is gone from
\* origin).
C39_DeletionScope ==
    \A b \in Branches :
        /\ b \in {"main", "develop"} => ~GoneOnOrigin(b)
        /\ GoneOnOrigin(b) => (SquashPromotion /\ b = StartBranch /\ "push --delete" \in ops)
        /\ GoneLocally(b) =>
              /\ git.head # b
              /\ \/ SquashPromotion /\ b = StartBranch /\ b \notin {"main", "develop"}
                 \/ ListedGone(b)

\* git cleanup on main in a clone whose develop was deleted on origin: the
\* local develop is deleted, origin's main is where it was
C39_Witness ==
    /\ CleanupFinished
    /\ StartBranch = "main"
    /\ GoneLocally("develop")
    /\ ListedGone("develop")
    /\ git.remote["main"] = pre.remote["main"]

----------------------------------------------------------------------------
(* Where a command waits for the operator *)

\* a prompt of the run was shown: a merge or push question of git
\* propagate, the update question of git feat, the confirmation of git acp
PropagateAsked == fan # NoFan /\ (fan.asked # <<>> \/ fan.pushAsked # <<>>)
FeatAsked == featRun.prompted
AcpAsked == run # NoRun /\ run.cmd = "acp" /\ "prompt" \in ops
\* the run waited for a line that never came
WaitedInVain == err = "NoAnswer"

\* C33 as stated: a run waits for the operator only at a merge or push
\* question of git propagate, at the update question of git feat, or at
\* the confirmation of git acp on main or master; git acp on any other
\* branch never asks.
C33_SuspensionPoints ==
    /\ WaitedInVain => (PropagateAsked \/ FeatAsked \/ AcpAsked)
    /\ AcpAsked => StartBranch \in Trunk

\* C33: a run waits for the operator only at a merge or push question of
\* git propagate, at the update question of git feat, or at the
\* confirmation of git acp, which is asked on every branch unless --yes
\* was given; git promote, git done, git cleanup and git wip never ask.
C33_SuspensionPointsEveryBranch ==
    /\ WaitedInVain => (PropagateAsked \/ FeatAsked \/ AcpAsked)
    /\ AcpAsked => ~run.yes
    /\ (AcpRun /\ ~run.yes /\ (pc = "qc_commit" \/ "commit" \in ops)) => AcpAsked
    /\ (run # NoRun /\ run.cmd # "acp") => "prompt" \notin ops

\* git acp on feat/x without --yes and with the input at its end: the
\* confirmation was shown and the run ended waiting
C33_Witness ==
    /\ AcpRun
    /\ StartBranch = "feat/x"
    /\ AcpAsked
    /\ WaitedInVain
    /\ ops = {"add", "prompt"}

====
